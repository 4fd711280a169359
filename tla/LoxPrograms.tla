---------------------------- MODULE LoxPrograms ----------------------------
(***************************************************************************)
(* Programs of the repository's test suite (test/*/*.lox) as sequences of  *)
(* lexemes, each with what its "expect" comments say it prints and how it  *)
(* ends.                                                                   *)
(***************************************************************************)
EXTENDS TLC

(* What number lexemes denote. *)
Numbers ==
  "0" :> 0 @@ "1" :> 1 @@ "2" :> 2 @@ "3" :> 3 @@ "4" :> 4 @@ "5" :> 5 @@
  "6" :> 6 @@ "7" :> 7 @@ "8" :> 8 @@ "9" :> 9 @@ "20" :> 20 @@ "123" :> 123 @@ "456" :> 456

(* What string lexemes denote. *)
Strings ==
  "\" b\"" :> " b" @@ "\" c\"" :> " c" @@ "\" d\"" :> " d" @@ "\"0\"" :> "0" @@
  "\"1\"" :> "1" @@ "\"a\"" :> "a" @@ "\"after\"" :> "after" @@
  "\"assigned\"" :> "assigned" @@ "\"b\"" :> "b" @@ "\"bad\"" :> "bad" @@
  "\"bad1\"" :> "bad1" @@ "\"bad2\"" :> "bad2" @@ "\"before\"" :> "before" @@
  "\"block\"" :> "block" @@ "\"c\"" :> "c" @@ "\"closure\"" :> "closure" @@
  "\"global\"" :> "global" @@ "\"good\"" :> "good" @@ "\"good1\"" :> "good1" @@
  "\"good2\"" :> "good2" @@ "\"i\"" :> "i" @@ "\"ing\"" :> "ing" @@
  "\"inner\"" :> "inner" @@ "\"local\"" :> "local" @@ "\"no\"" :> "no" @@
  "\"ok\"" :> "ok" @@ "\"other\"" :> "other" @@ "\"outer\"" :> "outer" @@
  "\"param\"" :> "param" @@ "\"s\"" :> "s" @@ "\"shadow\"" :> "shadow" @@
  "\"str\"" :> "str" @@ "\"value\"" :> "value" @@ "\"wat\"" :> "wat" @@
  "\"what\"" :> "what" @@ "\"x\"" :> "x"

TestPrograms == <<
  \* test/closure/assign_to_shadowed_later.lox
  [source |-> <<
      "var", "a", "=", "\"global\"", ";", "var", "a_num", "=", "1", ";", "var",
      "a_tristate", "=", "false", ";", "{", "fun", "assign", "(", ")", "{", "a",
      "=", "\"assigned\"", ";", "a_num", "=", "a_num", "+", "1", ";", "a_tristate",
      "=", "nil", ";", "}", "var", "a", "=", "\"inner\"", ";", "var", "a_num", "=",
      "0", ";", "var", "a_tristate", "=", "true", ";", "assign", "(", ")", ";",
      "print", "a", ";", "print", "a_num", ";", "print", "a_tristate", ";", "}",
      "print", "a", ";", "print", "a_num", ";", "print", "a_tristate", ";">>,
   prints |-> <<"inner", "0", "true", "assigned", "2", "nil">>, ends |-> "ok"],
  \* test/closure/close_over_function_parameter.lox
  [source |-> <<
      "var", "f", ";", "fun", "foo", "(", "param", ")", "{", "fun", "f_", "(", ")",
      "{", "print", "param", ";", "}", "f", "=", "f_", ";", "}", "foo", "(",
      "\"param\"", ")", ";", "f", "(", ")", ";">>,
   prints |-> <<"param">>, ends |-> "ok"],
  \* test/closure/close_over_later_variable.lox
  [source |-> <<
      "fun", "f", "(", ")", "{", "var", "a", "=", "\"a\"", ";", "var", "b", "=",
      "\"b\"", ";", "fun", "g", "(", ")", "{", "print", "b", ";", "print", "a",
      ";", "}", "g", "(", ")", ";", "}", "f", "(", ")", ";">>,
   prints |-> <<"b", "a">>, ends |-> "ok"],
  \* test/closure/closed_closure_in_function.lox
  [source |-> <<
      "var", "f", ";", "{", "var", "local", "=", "\"local\"", ";", "fun", "f_",
      "(", ")", "{", "print", "local", ";", "}", "f", "=", "f_", ";", "}", "f",
      "(", ")", ";">>,
   prints |-> <<"local">>, ends |-> "ok"],
  \* test/closure/nested_closure.lox
  [source |-> <<
      "var", "f", ";", "fun", "f1", "(", ")", "{", "var", "a", "=", "\"a\"", ";",
      "fun", "f2", "(", ")", "{", "var", "b", "=", "\"b\"", ";", "fun", "f3", "(",
      ")", "{", "var", "c", "=", "\"c\"", ";", "fun", "f4", "(", ")", "{", "print",
      "a", ";", "print", "b", ";", "print", "c", ";", "}", "f", "=", "f4", ";",
      "}", "f3", "(", ")", ";", "}", "f2", "(", ")", ";", "}", "f1", "(", ")", ";",
      "f", "(", ")", ";">>,
   prints |-> <<"a", "b", "c">>, ends |-> "ok"],
  \* test/closure/reference_closure_multiple_times.lox
  [source |-> <<
      "var", "f", ";", "{", "var", "a", "=", "\"a\"", ";", "fun", "f_", "(", ")",
      "{", "print", "a", ";", "print", "a", ";", "}", "f", "=", "f_", ";", "}",
      "f", "(", ")", ";">>,
   prints |-> <<"a", "a">>, ends |-> "ok"],
  \* test/closure/reuse_closure_slot.lox
  [source |-> <<
      "{", "var", "f", ";", "{", "var", "a", "=", "\"a\"", ";", "fun", "f_", "(",
      ")", "{", "print", "a", ";", "}", "f", "=", "f_", ";", "}", "{", "var", "b",
      "=", "\"b\"", ";", "f", "(", ")", ";", "}", "}">>,
   prints |-> <<"a">>, ends |-> "ok"],
  \* test/closure/shadow_closure_with_local.lox
  [source |-> <<
      "{", "var", "foo", "=", "\"closure\"", ";", "fun", "f", "(", ")", "{", "{",
      "print", "foo", ";", "var", "foo", "=", "\"shadow\"", ";", "print", "foo",
      ";", "}", "print", "foo", ";", "}", "f", "(", ")", ";", "}">>,
   prints |-> <<"closure", "shadow", "closure">>, ends |-> "ok"],
  \* test/closure/unused_closure.lox
  [source |-> <<
      "{", "var", "a", "=", "\"a\"", ";", "if", "(", "false", ")", "{", "fun",
      "foo", "(", ")", "{", "a", ";", "}", "}", "}", "print", "\"ok\"", ";">>,
   prints |-> <<"ok">>, ends |-> "ok"],
  \* test/closure/unused_later_closure.lox
  [source |-> <<
      "var", "closure", ";", "{", "var", "a", "=", "\"a\"", ";", "{", "var", "b",
      "=", "\"b\"", ";", "fun", "returnA", "(", ")", "{", "return", "a", ";", "}",
      "closure", "=", "returnA", ";", "if", "(", "false", ")", "{", "fun",
      "returnB", "(", ")", "{", "return", "b", ";", "}", "}", "}", "print",
      "closure", "(", ")", ";", "}">>,
   prints |-> <<"a">>, ends |-> "ok"],
  \* test/assignment/associativity.lox
  [source |-> <<
      "var", "a", "=", "\"a\"", ";", "var", "b", "=", "\"b\"", ";", "var", "c",
      "=", "\"c\"", ";", "a", "=", "b", "=", "c", ";", "print", "a", ";", "print",
      "b", ";", "print", "c", ";">>,
   prints |-> <<"c", "c", "c">>, ends |-> "ok"],
  \* test/block/scope.lox
  [source |-> <<
      "var", "a", "=", "\"outer\"", ";", "{", "var", "a", "=", "\"inner\"", ";",
      "print", "a", ";", "}", "print", "a", ";">>,
   prints |-> <<"inner", "outer">>, ends |-> "ok"],
  \* test/bool/not.lox
  [source |-> <<
      "print", "!", "true", ";", "print", "!", "false", ";", "print", "!", "!",
      "true", ";">>,
   prints |-> <<"false", "true", "true">>, ends |-> "ok"],
  \* test/call/num.lox
  [source |-> <<
      "123", "(", ")", ";">>,
   prints |-> <<>>, ends |-> "runtime_error"],
  \* test/call/string.lox
  [source |-> <<
      "\"str\"", "(", ")", ";">>,
   prints |-> <<>>, ends |-> "runtime_error"],
  \* test/for/closure_in_body.lox
  [source |-> <<
      "var", "f1", ";", "var", "f2", ";", "var", "f3", ";", "for", "(", "var", "i",
      "=", "1", ";", "i", "<", "4", ";", "i", "=", "i", "+", "1", ")", "{", "var",
      "j", "=", "i", ";", "fun", "f", "(", ")", "{", "print", "i", ";", "print",
      "j", ";", "}", "if", "(", "j", "==", "1", ")", "f1", "=", "f", ";", "else",
      "if", "(", "j", "==", "2", ")", "f2", "=", "f", ";", "else", "f3", "=", "f",
      ";", "}", "f1", "(", ")", ";", "f2", "(", ")", ";", "f3", "(", ")", ";">>,
   prints |-> <<"4", "1", "4", "2", "4", "3">>, ends |-> "ok"],
  \* test/for/return_closure.lox
  [source |-> <<
      "fun", "f", "(", ")", "{", "for", "(", ";", ";", ")", "{", "var", "i", "=",
      "\"i\"", ";", "fun", "g", "(", ")", "{", "print", "i", ";", "}", "return",
      "g", ";", "}", "}", "var", "h", "=", "f", "(", ")", ";", "h", "(", ")", ";">>,
   prints |-> <<"i">>, ends |-> "ok"],
  \* test/for/scope.lox
  [source |-> <<
      "{", "var", "i", "=", "\"before\"", ";", "for", "(", "var", "i", "=", "0",
      ";", "i", "<", "1", ";", "i", "=", "i", "+", "1", ")", "{", "print", "i",
      ";", "var", "i", "=", "-", "1", ";", "print", "i", ";", "}", "}", "{", "for",
      "(", "var", "i", "=", "0", ";", "i", ">", "0", ";", "i", "=", "i", "+", "1",
      ")", "{", "}", "var", "i", "=", "\"after\"", ";", "print", "i", ";", "for",
      "(", "i", "=", "0", ";", "i", "<", "1", ";", "i", "=", "i", "+", "1", ")",
      "{", "print", "i", ";", "}", "}">>,
   prints |-> <<"0", "-1", "after", "0">>, ends |-> "ok"],
  \* test/for/fun_in_body.lox
  [source |-> <<
      "for", "(", ";", ";", ")", "fun", "foo", "(", ")", "{", "}">>,
   prints |-> <<>>, ends |-> "compile_error"],
  \* test/for/statement_condition.lox
  [source |-> <<
      "for", "(", "var", "a", "=", "1", ";", "{", "}", ";", "a", "=", "a", "+",
      "1", ")", "{", "}">>,
   prints |-> <<>>, ends |-> "compile_error"],
  \* test/for/statement_increment.lox
  [source |-> <<
      "for", "(", "var", "a", "=", "1", ";", "a", "<", "2", ";", "{", "}", ")",
      "{", "}">>,
   prints |-> <<>>, ends |-> "compile_error"],
  \* test/for/statement_initializer.lox
  [source |-> <<
      "for", "(", "{", "}", ";", "a", "<", "2", ";", "a", "=", "a", "+", "1", ")",
      "{", "}">>,
   prints |-> <<>>, ends |-> "compile_error"],
  \* test/function/body_must_be_block.lox
  [source |-> <<
      "fun", "f", "(", ")", "123", ";">>,
   prints |-> <<>>, ends |-> "compile_error"],
  \* test/function/extra_arguments.lox
  [source |-> <<
      "fun", "f", "(", "a", ",", "b", ")", "{", "print", "a", ";", "print", "b",
      ";", "}", "f", "(", "1", ",", "2", ",", "3", ",", "4", ")", ";">>,
   prints |-> <<>>, ends |-> "runtime_error"],
  \* test/function/missing_arguments.lox
  [source |-> <<
      "fun", "f", "(", "a", ",", "b", ")", "{", "}", "f", "(", "1", ")", ";">>,
   prints |-> <<>>, ends |-> "runtime_error"],
  \* test/function/local_mutual_recursion.lox
  [source |-> <<
      "{", "fun", "isEven", "(", "n", ")", "{", "if", "(", "n", "==", "0", ")",
      "return", "true", ";", "return", "isOdd", "(", "n", "-", "1", ")", ";", "}",
      "fun", "isOdd", "(", "n", ")", "{", "if", "(", "n", "==", "0", ")", "return",
      "false", ";", "return", "isEven", "(", "n", "-", "1", ")", ";", "}",
      "isEven", "(", "4", ")", ";", "}">>,
   prints |-> <<>>, ends |-> "runtime_error"],
  \* test/function/missing_comma_in_parameters.lox
  [source |-> <<
      "fun", "foo", "(", "a", ",", "b", "c", ",", "d", ",", "e", ",", "f", ")",
      "{", "}">>,
   prints |-> <<>>, ends |-> "compile_error"],
  \* test/function/mutual_recursion.lox
  [source |-> <<
      "fun", "isEven", "(", "n", ")", "{", "if", "(", "n", "==", "0", ")",
      "return", "true", ";", "return", "isOdd", "(", "n", "-", "1", ")", ";", "}",
      "fun", "isOdd", "(", "n", ")", "{", "if", "(", "n", "==", "0", ")", "return",
      "false", ";", "return", "isEven", "(", "n", "-", "1", ")", ";", "}", "print",
      "isEven", "(", "4", ")", ";", "print", "isOdd", "(", "3", ")", ";">>,
   prints |-> <<"true", "true">>, ends |-> "ok"],
  \* test/function/local_recursion.lox
  [source |-> <<
      "{", "fun", "fib", "(", "n", ")", "{", "if", "(", "n", "<", "2", ")",
      "return", "n", ";", "return", "fib", "(", "n", "-", "1", ")", "+", "fib",
      "(", "n", "-", "2", ")", ";", "}", "print", "fib", "(", "8", ")", ";", "}">>,
   prints |-> <<"21">>, ends |-> "ok"],
  \* test/if/dangling_else.lox
  [source |-> <<
      "if", "(", "true", ")", "if", "(", "false", ")", "print", "\"bad\"", ";",
      "else", "print", "\"good\"", ";", "if", "(", "false", ")", "if", "(", "true",
      ")", "print", "\"bad\"", ";", "else", "print", "\"bad\"", ";">>,
   prints |-> <<"good">>, ends |-> "ok"],
  \* test/if/else.lox
  [source |-> <<
      "if", "(", "true", ")", "print", "\"good1\"", ";", "else", "print",
      "\"bad1\"", ";", "if", "(", "false", ")", "print", "\"bad2\"", ";", "else",
      "print", "\"good2\"", ";", "if", "(", "false", ")", "nil", ";", "else", "{",
      "print", "\"block\"", ";", "}">>,
   prints |-> <<"good1", "good2", "block">>, ends |-> "ok"],
  \* test/if/fun_in_else.lox
  [source |-> <<
      "if", "(", "true", ")", "\"ok\"", ";", "else", "fun", "foo", "(", ")", "{",
      "}">>,
   prints |-> <<>>, ends |-> "compile_error"],
  \* test/if/if.lox
  [source |-> <<
      "if", "(", "true", ")", "print", "\"good\"", ";", "if", "(", "false", ")",
      "print", "\"bad\"", ";", "if", "(", "true", ")", "{", "print", "\"block\"",
      ";", "}", "var", "a", "=", "false", ";", "if", "(", "a", "=", "true", ")",
      "print", "a", ";">>,
   prints |-> <<"good", "block", "true">>, ends |-> "ok"],
  \* test/logical_operator/and.lox
  [source |-> <<
      "print", "false", "and", "1", ";", "print", "true", "and", "1", ";", "print",
      "1", "and", "2", "and", "false", ";", "print", "1", "and", "true", ";",
      "print", "1", "and", "2", "and", "3", ";", "var", "a", "=", "\"before\"",
      ";", "var", "b", "=", "\"before\"", ";", "(", "a", "=", "true", ")", "and",
      "(", "b", "=", "false", ")", "and", "(", "a", "=", "\"bad\"", ")", ";",
      "print", "a", ";", "print", "b", ";">>,
   prints |-> <<"false", "1", "false", "true", "3", "true", "false">>, ends |-> "ok"],
  \* test/logical_operator/or.lox
  [source |-> <<
      "print", "1", "or", "true", ";", "print", "false", "or", "1", ";", "print",
      "false", "or", "false", "or", "true", ";", "print", "false", "or", "false",
      ";", "print", "false", "or", "false", "or", "false", ";", "var", "a", "=",
      "\"before\"", ";", "var", "b", "=", "\"before\"", ";", "(", "a", "=",
      "false", ")", "or", "(", "b", "=", "true", ")", "or", "(", "a", "=",
      "\"bad\"", ")", ";", "print", "a", ";", "print", "b", ";">>,
   prints |-> <<"1", "1", "true", "false", "false", "false", "true">>, ends |-> "ok"],
  \* test/operator/add.lox
  [source |-> <<
      "print", "123", "+", "456", ";", "print", "\"str\"", "+", "\"ing\"", ";">>,
   prints |-> <<"579", "string">>, ends |-> "ok"],
  \* test/operator/negate.lox
  [source |-> <<
      "print", "-", "(", "3", ")", ";", "print", "-", "-", "(", "3", ")", ";",
      "print", "-", "-", "-", "(", "3", ")", ";">>,
   prints |-> <<"-3", "3", "-3">>, ends |-> "ok"],
  \* test/operator/add_bool_num.lox
  [source |-> <<
      "true", "+", "123", ";">>,
   prints |-> <<>>, ends |-> "runtime_error"],
  \* test/operator/comparison.lox
  [source |-> <<
      "print", "1", "<", "2", ";", "print", "2", "<", "2", ";", "print", "2", "<",
      "1", ";", "print", "1", "<=", "2", ";", "print", "2", "<=", "2", ";",
      "print", "2", "<=", "1", ";", "print", "1", ">", "2", ";", "print", "2", ">",
      "2", ";", "print", "2", ">", "1", ";", "print", "1", ">=", "2", ";", "print",
      "2", ">=", "2", ";", "print", "2", ">=", "1", ";", "print", "0", "<", "-",
      "0", ";", "print", "-", "0", "<", "0", ";", "print", "0", ">", "-", "0", ";",
      "print", "-", "0", ">", "0", ";", "print", "0", "<=", "-", "0", ";", "print",
      "-", "0", "<=", "0", ";", "print", "0", ">=", "-", "0", ";", "print", "-",
      "0", ">=", "0", ";">>,
   prints |-> <<"true", "false", "false", "true", "true", "false", "false", "false",
               "true", "false", "true", "true", "false", "false", "false", "false", "true", "true", "true", "true">>, ends |-> "ok"],
  \* test/regression/40.lox
  [source |-> <<
      "fun", "caller", "(", "g", ")", "{", "g", "(", ")", ";", "print", "g", "==",
      "nil", ";", "}", "fun", "callCaller", "(", ")", "{", "var", "capturedVar",
      "=", "\"before\"", ";", "var", "a", "=", "\"a\"", ";", "fun", "f", "(", ")",
      "{", "capturedVar", "=", "\"after\"", ";", "}", "caller", "(", "f", ")", ";",
      "}", "callCaller", "(", ")", ";">>,
   prints |-> <<"false">>, ends |-> "ok"],
  \* test/return/after_else.lox
  [source |-> <<
      "fun", "f", "(", ")", "{", "if", "(", "false", ")", "\"no\"", ";", "else",
      "return", "\"ok\"", ";", "}", "print", "f", "(", ")", ";">>,
   prints |-> <<"ok">>, ends |-> "ok"],
  \* test/return/at_top_level.lox
  [source |-> <<
      "return", "\"wat\"", ";">>,
   prints |-> <<>>, ends |-> "compile_error"],
  \* test/return/return_nil_if_no_value.lox
  [source |-> <<
      "fun", "f", "(", ")", "{", "return", ";", "print", "\"bad\"", ";", "}",
      "print", "f", "(", ")", ";">>,
   prints |-> <<"nil">>, ends |-> "ok"],
  \* test/variable/collide_with_parameter.lox
  [source |-> <<
      "fun", "foo", "(", "a", ")", "{", "var", "a", ";", "}">>,
   prints |-> <<>>, ends |-> "compile_error"],
  \* test/variable/duplicate_local.lox
  [source |-> <<
      "{", "var", "a", "=", "\"value\"", ";", "var", "a", "=", "\"other\"", ";",
      "}">>,
   prints |-> <<>>, ends |-> "compile_error"],
  \* test/variable/early_bound.lox
  [source |-> <<
      "var", "a", "=", "\"outer\"", ";", "{", "fun", "foo", "(", ")", "{", "print",
      "a", ";", "}", "foo", "(", ")", ";", "var", "a", "=", "\"inner\"", ";",
      "foo", "(", ")", ";", "}">>,
   prints |-> <<"outer", "outer">>, ends |-> "ok"],
  \* test/variable/in_middle_of_block.lox
  [source |-> <<
      "{", "var", "a", "=", "\"a\"", ";", "print", "a", ";", "var", "b", "=", "a",
      "+", "\" b\"", ";", "print", "b", ";", "var", "c", "=", "a", "+", "\" c\"",
      ";", "print", "c", ";", "var", "d", "=", "b", "+", "\" d\"", ";", "print",
      "d", ";", "}">>,
   prints |-> <<"a", "a b", "a c", "a b d">>, ends |-> "ok"],
  \* test/variable/redeclare_global.lox
  [source |-> <<
      "var", "a", "=", "\"1\"", ";", "var", "a", ";", "print", "a", ";">>,
   prints |-> <<"nil">>, ends |-> "ok"],
  \* test/variable/shadow_and_local.lox
  [source |-> <<
      "{", "var", "a", "=", "\"outer\"", ";", "{", "print", "a", ";", "var", "a",
      "=", "\"inner\"", ";", "print", "a", ";", "}", "}">>,
   prints |-> <<"outer", "inner">>, ends |-> "ok"],
  \* test/variable/uninitialized.lox
  [source |-> <<
      "var", "a", ";", "print", "a", ";">>,
   prints |-> <<"nil">>, ends |-> "ok"],
  \* test/variable/unreached_undefined.lox
  [source |-> <<
      "if", "(", "false", ")", "{", "print", "notDefined", ";", "}", "print",
      "\"ok\"", ";">>,
   prints |-> <<"ok">>, ends |-> "ok"],
  \* test/variable/use_local_in_initializer.lox
  [source |-> <<
      "var", "a", "=", "\"outer\"", ";", "{", "var", "a", "=", "a", ";", "}">>,
   prints |-> <<>>, ends |-> "compile_error"],
  \* test/variable/use_false_as_var.lox
  [source |-> <<
      "var", "false", "=", "\"value\"", ";">>,
   prints |-> <<>>, ends |-> "compile_error"],
  \* test/while/closure_in_body.lox
  [source |-> <<
      "var", "f1", ";", "var", "f2", ";", "var", "f3", ";", "var", "i", "=", "1",
      ";", "while", "(", "i", "<", "4", ")", "{", "var", "j", "=", "i", ";", "fun",
      "f", "(", ")", "{", "print", "j", ";", "}", "if", "(", "j", "==", "1", ")",
      "f1", "=", "f", ";", "else", "if", "(", "j", "==", "2", ")", "f2", "=", "f",
      ";", "else", "f3", "=", "f", ";", "i", "=", "i", "+", "1", ";", "}", "f1",
      "(", ")", ";", "f2", "(", ")", ";", "f3", "(", ")", ";">>,
   prints |-> <<"1", "2", "3">>, ends |-> "ok"],
  \* test/while/return_closure.lox
  [source |-> <<
      "fun", "f", "(", ")", "{", "while", "(", "true", ")", "{", "var", "i", "=",
      "\"i\"", ";", "fun", "g", "(", ")", "{", "print", "i", ";", "}", "return",
      "g", ";", "}", "}", "var", "h", "=", "f", "(", ")", ";", "h", "(", ")", ";">>,
   prints |-> <<"i">>, ends |-> "ok"],
  \* test/while/fun_in_body.lox
  [source |-> <<
      "while", "(", "true", ")", "fun", "foo", "(", ")", "{", "}">>,
   prints |-> <<>>, ends |-> "compile_error"],
  \* test/assignment/grouping.lox
  [source |-> <<
      "var", "a", "=", "\"a\"", ";", "(", "a", ")", "=", "\"value\"", ";">>,
   prints |-> <<>>, ends |-> "compile_error"],
  \* test/assignment/undefined.lox
  [source |-> <<
      "unknown", "=", "\"what\"", ";">>,
   prints |-> <<>>, ends |-> "runtime_error"],
  \* test/operator/greater_nonnum_num.lox
  [source |-> <<
      "\"1\"", ">", "1", ";">>,
   prints |-> <<>>, ends |-> "runtime_error"],
  \* test/operator/subtract_num_nonnum.lox
  [source |-> <<
      "1", "-", "\"1\"", ";">>,
   prints |-> <<>>, ends |-> "runtime_error"],
  \* test/operator/negate_nonnum.lox
  [source |-> <<
      "-", "\"s\"", ";">>,
   prints |-> <<>>, ends |-> "runtime_error"],
  \* test/operator/equals.lox
  [source |-> <<
      "print", "nil", "==", "nil", ";", "print", "true", "==", "true", ";",
      "print", "true", "==", "false", ";", "print", "1", "==", "1", ";", "print",
      "1", "==", "2", ";", "print", "\"str\"", "==", "\"str\"", ";", "print",
      "\"str\"", "==", "\"ing\"", ";", "print", "nil", "==", "false", ";", "print",
      "false", "==", "0", ";", "print", "0", "==", "\"0\"", ";">>,
   prints |-> <<"true", "true", "false", "true", "false", "true", "false", "false",
               "false", "false">>, ends |-> "ok"],
  \* test/operator/not_equals.lox
  [source |-> <<
      "print", "nil", "!=", "nil", ";", "print", "true", "!=", "true", ";",
      "print", "true", "!=", "false", ";", "print", "1", "!=", "1", ";", "print",
      "1", "!=", "2", ";", "print", "\"str\"", "!=", "\"str\"", ";", "print",
      "\"str\"", "!=", "\"ing\"", ";", "print", "nil", "!=", "false", ";", "print",
      "false", "!=", "0", ";", "print", "0", "!=", "\"0\"", ";">>,
   prints |-> <<"false", "false", "true", "false", "true", "false", "true", "true",
               "true", "true">>, ends |-> "ok"],
  \* test/precedence.lox
  [source |-> <<
      "print", "2", "+", "3", "*", "4", ";", "print", "20", "-", "3", "*", "4",
      ";", "print", "2", "+", "6", "/", "3", ";", "print", "2", "-", "6", "/",
      "3", ";", "print", "false", "==", "2", "<", "1", ";", "print", "false",
      "==", "1", ">", "2", ";", "print", "false", "==", "2", "<=", "1", ";",
      "print", "false", "==", "1", ">=", "2", ";", "print", "1", "-", "1", ";",
      "print", "1", "-", "1", ";", "print", "1", "-", "1", ";", "print", "1", "-",
      "1", ";", "print", "(", "2", "*", "(", "6", "-", "(", "2", "+", "2", ")",
      ")", ")", ";">>,
   prints |-> <<"14", "8", "4", "0", "true", "true", "true", "true", "0", "0", "0",
               "0", "4">>, ends |-> "ok"],
  \* test/while/syntax.lox
  [source |-> <<
      "var", "c", "=", "0", ";", "while", "(", "c", "<", "3", ")", "print", "c",
      "=", "c", "+", "1", ";", "var", "a", "=", "0", ";", "while", "(", "a", "<",
      "3", ")", "{", "print", "a", ";", "a", "=", "a", "+", "1", ";", "}", "while",
      "(", "false", ")", "if", "(", "true", ")", "1", ";", "else", "2", ";",
      "while", "(", "false", ")", "while", "(", "true", ")", "1", ";", "while",
      "(", "false", ")", "for", "(", ";", ";", ")", "1", ";">>,
   prints |-> <<"1", "2", "3", "0", "1", "2">>, ends |-> "ok"]
>>

=============================================================================
