------------------------------- MODULE Tokens -------------------------------
(***************************************************************************)
(* The tokens that Scanner hands to Compiler (Treewalk/Token.h).  Source   *)
(* text is a sequence of lexemes here: how Scanner cuts characters into    *)
(* lexemes is not modelled, which type it gives to each lexeme is.         *)
(***************************************************************************)
EXTENDS Naturals, Sequences, TLC

CONSTANTS
  NumberValue,  \* the number that each number lexeme of the sources denotes
  StringValue   \* the contents of each string lexeme of the sources

(* A table of token types, given as pairs of a lexeme and its type. *)
Table(pairs) ==
  [l \in {p[1] : p \in pairs} |-> (CHOOSE p \in pairs : p[1] = l)[2]]

(* Scanner::scan_token. *)
PunctuationType == Table({
  <<"(", "LEFT_PAREN">>, <<")", "RIGHT_PAREN">>, <<"{", "LEFT_BRACE">>, <<"}", "RIGHT_BRACE">>,
  <<",", "COMMA">>, <<".", "DOT">>, <<"-", "MINUS">>, <<"+", "PLUS">>, <<";", "SEMICOLON">>,
  <<"/", "SLASH">>, <<"*", "STAR">>, <<"!", "BANG">>, <<"!=", "BANG_EQUAL">>, <<"=", "EQUAL">>,
  <<"==", "EQUAL_EQUAL">>, <<">", "GREATER">>, <<">=", "GREATER_EQUAL">>, <<"<", "LESS">>,
  <<"<=", "LESS_EQUAL">>})

(* reserved_keyword_or_identifier_type *)
KeywordType == Table({
  <<"and", "AND">>, <<"class", "CLASS">>, <<"else", "ELSE">>, <<"false", "FALSE">>,
  <<"fun", "FUN">>, <<"for", "FOR">>, <<"if", "IF">>, <<"nil", "NIL">>, <<"or", "OR">>,
  <<"print", "PRINT">>, <<"return", "RETURN">>, <<"super", "SUPER">>, <<"this", "THIS">>,
  <<"true", "TRUE">>, <<"var", "VAR">>, <<"while", "WHILE">>})

FixedType ==
  [l \in DOMAIN PunctuationType \cup DOMAIN KeywordType |->
     IF l \in DOMAIN PunctuationType THEN PunctuationType[l] ELSE KeywordType[l]]

TokenType == {FixedType[l] : l \in DOMAIN FixedType}
               \cup {"IDENTIFIER", "STRING", "NUMBER", "LOX_EOF"}

TypeOf(lexeme) ==
  CASE lexeme \in DOMAIN FixedType   -> FixedType[lexeme]
    [] lexeme \in DOMAIN NumberValue -> "NUMBER"
    [] lexeme \in DOMAIN StringValue -> "STRING"
    [] OTHER                         -> "IDENTIFIER"

(* Scanner::tokenize: the tokens of the text, and one that marks its end. *)
Tokenize(source) ==
  Append([i \in DOMAIN source |-> [type |-> TypeOf(source[i]), lexeme |-> source[i]]],
         [type |-> "LOX_EOF", lexeme |-> ""])

=============================================================================
