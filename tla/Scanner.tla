------------------------------ MODULE Scanner ------------------------------
(***************************************************************************)
(* Scanner: characters to tokens (Treewalk/Scanner.cpp).  The source is a  *)
(* string; one action is one call of scan_token.                           *)
(***************************************************************************)
EXTENDS Ast, Tokens

VARIABLES
  source,
  current,      \* how many characters have been read
  line_number,
  tokens

scanner_vars == <<source, current, line_number, tokens>>

CharsOf(s) == {SubSeq(s, i, i) : i \in 1 .. Len(s)}

Digits == CharsOf("0123456789")
Alphas == CharsOf("abcdefghijklmnopqrstuvwxyzABCDEFGHIJKLMNOPQRSTUVWXYZ_")
Blanks == CharsOf(" \r\t\n")

CanReadMore == current < Len(source)

(* The character at an offset; nothing behind the end. *)
CharAt(i) == IF i < Len(source) THEN SubSeq(source, i + 1, i + 1) ELSE ""

(* The first offset at or after i where there is none of the characters. *)
Past(i, chars) ==
  CHOOSE j \in i .. Len(source) :
    CharAt(j) \notin chars /\ \A k \in i .. j - 1 : CharAt(k) \in chars

(* The first offset at or after i with that character, or the end. *)
Find(i, char) ==
  CHOOSE j \in i .. Len(source) :
    (j = Len(source) \/ CharAt(j) = char) /\ \A k \in i .. j - 1 : CharAt(k) # char

-----------------------------------------------------------------------------
Chr == CharAt(current)

NewLines(i, j) == Cardinality({k \in i .. j - 1 : CharAt(k) = "\n"})

(* The characters up to `end' are read, and make a token of that type. *)
AddToken(type, end) ==
  /\ current' = end
  /\ line_number' = line_number + NewLines(current, end)
  /\ tokens' = Append(tokens, [type |-> type, lexeme |-> SubSeq(source, current + 1, end),
                               line |-> line_number'])
  /\ UNCHANGED <<source, errors>>

(* They are read, and make none. *)
Skip(end) ==
  /\ current' = end
  /\ line_number' = line_number + NewLines(current, end)
  /\ UNCHANGED <<source, tokens>>

IsComment == Chr = "/" /\ CharAt(current + 1) = "/"

Punctuator ==
  /\ CanReadMore
  /\ ~IsComment
  /\ Chr \in DOMAIN PunctuationType
  /\ LET n == IF Chr \in {"!", "=", "<", ">"} /\ CharAt(current + 1) = "=" THEN 2 ELSE 1
     IN  AddToken(PunctuationType[SubSeq(source, current + 1, current + n)], current + n)

Blank ==
  /\ CanReadMore
  /\ Chr \in Blanks \/ IsComment
  /\ Skip(IF IsComment THEN Find(current, "\n") ELSE current + 1)
  /\ UNCHANGED errors

(* consume_string *)
String ==
  /\ CanReadMore
  /\ Chr = "\""
  /\ LET close == Find(current + 1, "\"")
     IN  IF close < Len(source) THEN AddToken("STRING", close + 1)
         ELSE Skip(close) /\ SetError("unterminated string")

(* consume_number: a point belongs to it in front of a digit only.  (Fault: always.) *)
NumberEndAnyPoint ==
  LET whole == Past(current, Digits)
  IN  IF CharAt(whole) = "." THEN Past(whole + 1, Digits) ELSE whole

NumberEnd ==
  LET whole == Past(current, Digits)
  IN  IF CharAt(whole) = "." /\ CharAt(whole + 1) \in Digits THEN Past(whole + 1, Digits)
      ELSE whole

Number ==
  /\ CanReadMore
  /\ Chr \in Digits
  /\ AddToken("NUMBER", NumberEnd)

(* consume_identifier *)
Identifier ==
  /\ CanReadMore
  /\ Chr \in Alphas
  /\ LET end    == Past(current, Alphas \cup Digits)
         lexeme == SubSeq(source, current + 1, end)
     IN  AddToken(IF lexeme \in DOMAIN KeywordType THEN KeywordType[lexeme] ELSE "IDENTIFIER", end)

Unexpected ==
  /\ CanReadMore
  /\ Chr \notin Digits \cup Alphas \cup Blanks \cup DOMAIN PunctuationType \cup {"\""}
  /\ Skip(current + 1)
  /\ SetError("unexpected character")

Scanned == tokens # <<>> /\ Last(tokens).type = "LOX_EOF"

EndTokens ==
  /\ ~CanReadMore /\ ~Scanned
  /\ AddToken("LOX_EOF", current)

ScannerInit(sources) ==
  source \in sources /\ current = 0 /\ line_number = 1 /\ tokens = <<>>

ScanToken ==
  \/ Punctuator \/ Blank \/ String \/ Number \/ Identifier \/ Unexpected \/ EndTokens

-----------------------------------------------------------------------------
(* Properties *)

(* What the language calls a lexeme, a blank or a comment, as a pattern. *)
AllIn(i, j, chars) == \A k \in i .. j - 1 : CharAt(k) \in chars

IsNumeral(i, j) ==
  \/ i < j /\ AllIn(i, j, Digits)
  \/ \E p \in i + 1 .. j - 2 :
       CharAt(p) = "." /\ AllIn(i, p, Digits) /\ AllIn(p + 1, j, Digits)

IsSpace(i, j) ==
  \/ j = i + 1 /\ CharAt(i) \in Blanks
  \/ i + 2 <= j /\ CharAt(i) = "/" /\ CharAt(i + 1) = "/" /\ \A k \in i .. j - 1 : CharAt(k) # "\n"

IsLexeme(i, j) ==
  \/ SubSeq(source, i + 1, j) \in DOMAIN PunctuationType
  \/ i < j /\ CharAt(i) \in Alphas /\ AllIn(i, j, Alphas \cup Digits)
  \/ IsNumeral(i, j)
  \/ i + 2 <= j /\ CharAt(i) = "\"" /\ CharAt(j - 1) = "\"" /\ \A k \in i + 1 .. j - 2 : CharAt(k) # "\""

(* The tokens from offset i on, always the longest that fits. *)
LongestMatches ==
  LET from[i \in 0 .. Len(source)] ==
        IF i = Len(source) THEN <<>>
        ELSE LET ends == {j \in i + 1 .. Len(source) : IsLexeme(i, j) \/ IsSpace(i, j)}
                 end  == CHOOSE j \in ends : \A k \in ends : k <= j
             IN  IF ends = {} THEN <<"none">>
                 ELSE (IF IsSpace(i, end) THEN <<>> ELSE <<SubSeq(source, i + 1, end)>>) \o from[end]
  IN  from[0]

(***************************************************************************)
(* scan_token takes the longest lexeme every time ("==" is never two       *)
(* "="s, "//" is never two "/"s, and the point of "1." is not part of the  *)
(* number), and counts the lines that multi-line strings and comments      *)
(* span: a source without a scanning error is cut as the patterns say.     *)
(***************************************************************************)
CutsLongestLexemes ==
  Scanned =>
    /\ ~HasError => [i \in 1 .. Len(tokens) - 1 |-> tokens[i].lexeme] = LongestMatches
    /\ Last(tokens).line = 1 + NewLines(0, Len(source))

=============================================================================
