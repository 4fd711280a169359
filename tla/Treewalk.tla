------------------------------ MODULE Treewalk ------------------------------
(***************************************************************************)
(* Runner (Treewalk/Runner.cpp): every line of a session is scanned,       *)
(* parsed, resolved and interpreted, up to the first stage with an error.  *)
(* A file is a session of one line.  The interpreter is kept from line to  *)
(* line, with its variables and callables; the tree of a line is not.      *)
(***************************************************************************)
EXTENDS TreeParser, Resolver, Interpreter, Scoping

CONSTANT Sessions  \* sequences of sources

VARIABLES
  session,  \* the lines; the one at hand is number `program'
  stage,    \* what is being done with it
  outcomes  \* how the lines before it ended

runner_vars == <<session, stage, outcomes>>
vars == <<errors, scanner_vars, parser_vars, interpreter_vars, runner_vars>>

(* Behind the addresses of the earlier lines, of less than 1000 tokens each. *)
Fresh == 1000 * program

Init ==
  /\ errors = {}
  /\ session \in Sessions
  /\ ScannerInit({""})
  /\ ParserInit(0)
  /\ InterpreterInit
  /\ stage = "line"
  /\ outcomes = <<>>

(* Runner::run: a line begins; its tree is where an earlier one was, or not. *)
NextLine ==
  /\ stage = "line" /\ program < Len(session)
  /\ source' = session[program + 1] /\ current' = 0 /\ line_number' = 1 /\ tokens' = <<>>
  /\ next' = 1 /\ statements' = <<>> /\ base' \in {0, Fresh}
  /\ program' = program + 1
  /\ stage' = "scan"
  /\ UNCHANGED <<errors, session, outcomes, locals, environments, current_env, callables, todo, values,
                 val, output>>

(* The line is over, and e_reporter.clear() makes place for the next. *)
EndLine(outcome) ==
  /\ outcomes' = Append(outcomes, outcome)
  /\ stage' = "line"
  /\ errors' = {}
  /\ UNCHANGED <<session, scanner_vars, parser_vars>>

(* has_error after a stage. *)
Proceed(outcome, following) ==
  \/ /\ HasError
     /\ EndLine(outcome)
     /\ UNCHANGED interpreter_vars
  \/ /\ ~HasError
     /\ stage' = following
     /\ UNCHANGED <<errors, session, outcomes, scanner_vars, parser_vars, interpreter_vars>>

Scan ==
  /\ stage = "scan"
  /\ ScanToken
  /\ UNCHANGED <<parser_vars, interpreter_vars, runner_vars>>

EndScan == stage = "scan" /\ Scanned /\ Proceed("scanning error", "parse")

ParseNext ==
  /\ stage = "parse"
  /\ ParseDeclaration \/ Recover
  /\ UNCHANGED <<scanner_vars, interpreter_vars, runner_vars>>

EndParse == stage = "parse" /\ Parsed /\ Proceed("parsing error", "resolve")

Resolve ==
  /\ stage = "resolve"
  /\ LET r == Resolved(statements, locals)
     IN  /\ locals' = r.locals
         /\ IF r.errors # {}
            THEN EndLine("resolving error") /\ UNCHANGED todo
            ELSE /\ todo' = statements /\ stage' = "interpret"
                 /\ UNCHANGED <<errors, session, outcomes, scanner_vars, parser_vars>>
  /\ UNCHANGED <<environments, current_env, callables, program, values, val, output>>

Interpret ==
  /\ stage = "interpret"
  /\ Step
  /\ UNCHANGED <<scanner_vars, parser_vars, runner_vars>>

EndInterpret ==
  /\ stage = "interpret" /\ todo = <<>>
  /\ EndLine(IF HasError THEN "runtime error" ELSE "ok")
  /\ UNCHANGED interpreter_vars

Next ==
  \/ NextLine \/ Scan \/ EndScan \/ ParseNext \/ EndParse \/ Resolve \/ Interpret \/ EndInterpret

Spec == Init /\ [][Next]_vars

(* One thread runs the session, and takes its next step while there is one. *)
FairSpec == Spec /\ WF_vars(Next)

-----------------------------------------------------------------------------
(* Properties *)

Ended == stage = "line" /\ program = Len(session)

(***************************************************************************)
(* Every session of Sessions comes to its end, or to more environments     *)
(* than the model has: the scanner reads on, the parser drops a token      *)
(* where it cannot go on, and an exception is always caught.               *)
(***************************************************************************)
SessionEnds == <>(Ended \/ ~Bounded)

RECURSIVE VisitsFrom(_)
VisitsFrom(visits) ==
  IF visits = {} THEN {} ELSE visits \cup VisitsFrom(UNION {Following(v) : v \in visits})

(***************************************************************************)
(* What Parser and Resolver hand to Interpreter is a program as Scoping    *)
(* describes it: the recursion over the tree, with its stack of scopes and *)
(* a map that keeps what is inserted first, finds for every use the        *)
(* innermost scope that has the name, and lets no return pass that is not  *)
(* in a function.  (Provided that its nodes are where no other program has *)
(* been.)                                                                  *)
(***************************************************************************)
ProgramsResolved ==
  stage = "interpret" /\ todo = statements /\ (program = 1 \/ base # 0) =>
    IsResolved(statements, locals, VisitsFrom(InSequence(statements, <<>>, FALSE)))

(***************************************************************************)
(* The Runner keeps its Interpreter "to preserve interpreter state in      *)
(* REPL" (Runner.h:24): whatever an earlier line has defined, a later one  *)
(* can use.  (The statements that functions refer to, and the addresses    *)
(* that locals maps to distances, are those of a tree that is gone.)       *)
(***************************************************************************)
ReplStatePreserved == stage = "interpret" => ~Undefined

=============================================================================
