----------------------------- MODULE CommandClass ----------------------------
(***************************************************************************)
(* The risk classifier of shell commands (internal/cmdclass) and the       *)
(* quoting that srvgov's own commands use (observe.ShellQuote).            *)
(*                                                                         *)
(* Someone composes a command line piece by piece and means something by   *)
(* it: words, quoted in any of the shell's ways, commands, redirections,   *)
(* expansions.  The scanner reads the pieces as they come.  What was meant *)
(* is the reference that the scanner's items and the verdict are held to.  *)
(*                                                                         *)
(* A piece is a character that the scanner treats specially, or a run of   *)
(* ordinary ones.  A word is a sequence of pieces.                         *)
(***************************************************************************)
EXTENDS Naturals, SequencesExt

CONSTANTS
  Piece,      \* the pieces that command lines are made of
  Argument,   \* the words that srvgov's own commands quote
  MaxPieces   \* bound on the pieces of a command line

\* "none" stands for no quotes and no operator where the scanner keeps one.
ASSUME PieceAssumption ==
  /\ Argument \subseteq Seq(Piece)
  /\ "none" \notin Piece
  /\ MaxPieces \in Nat

Single == "'"
Double == "double quote"
Backslash == "backslash"
Newline == "newline"
Blank == "blank"          \* a space or a tab
Quotes == {Single, Double}
Operators == {"|", "&", ";", ">", "<"}
Redirections == {<<">">>, <<">", ">">>, <<"<">>}
Substitutions == {"$"}    \* also the backquote
Parentheses == {"("}
Globs == {"*"}            \* also { } ? [
Special == Quotes \cup Operators \cup Substitutions \cup Parentheses \cup Globs
             \cup {Backslash, Newline, Blank, "#", "~"}

\* The characters that a backslash between double quotes makes literal.
Escapable == Substitutions \cup {Double, Backslash}

\* observe.ShellQuote: single quotes, a quote inside them written '"'"'.
ShellQuote(w) ==
  LET spelled[n \in 0..Len(w)] ==
        IF n = 0
        THEN <<Single>>
        ELSE spelled[n - 1] \o IF w[n] = Single
                               THEN <<Single, Double, Single, Double, Single>>
                               ELSE <<w[n]>>
  IN  Append(spelled[Len(w)], Single)

-----------------------------------------------------------------------------
(* scan: one step of the scanner for each piece.                            *)

Word(text, expands) == [kind |-> "word", text |-> text, expands |-> expands]
Operator(text) == [kind |-> "operator", text |-> text, expands |-> FALSE]

\* "again" is the operator that the next piece may double (isRepeatedOperator).
Started ==
  [ok |-> TRUE, items |-> <<>>, token |-> <<>>, started |-> FALSE, expands |-> FALSE,
   quote |-> "none", escaped |-> FALSE, boundary |-> TRUE, comment |-> FALSE,
   again |-> "none"]

Refused == [Started EXCEPT !.ok = FALSE]

Flush(s) ==
  IF s.started
  THEN [s EXCEPT !.items = Append(@, Word(s.token, s.expands)),
                 !.token = <<>>, !.started = FALSE, !.expands = FALSE]
  ELSE s

Write(s, p) ==
  [s EXCEPT !.token = Append(@, p), !.started = TRUE, !.boundary = FALSE]

AddOperator(s, text) ==
  LET flushed == Flush(s)
  IN  [flushed EXCEPT !.items = Append(@, Operator(text)), !.boundary = TRUE]

\* Mutant: the backslash is dropped before every character between double quotes.
AfterBackslashDrops(s, p) ==
  IF p = Newline
  THEN [s EXCEPT !.escaped = FALSE]
  ELSE [Write(s, p) EXCEPT !.escaped = FALSE]

AfterBackslash(s, p) ==
  IF p = Newline
  THEN [s EXCEPT !.escaped = FALSE]
  ELSE LET kept == IF s.quote = Double /\ p \notin Escapable THEN Write(s, Backslash) ELSE s
       IN  [Write(kept, p) EXCEPT !.escaped = FALSE]

InQuotes(s, p) ==
  CASE p = s.quote                                 -> [s EXCEPT !.quote = "none"]
    [] s.quote = Double /\ p = Backslash           -> [s EXCEPT !.escaped = TRUE]
    [] s.quote = Double /\ p \in Substitutions     -> Refused
    [] OTHER                                       -> Write(s, p)

InComment(s, p) ==
  IF p = Newline THEN [AddOperator(s, <<";">>) EXCEPT !.comment = FALSE] ELSE s

Doubled(s) ==
  [s EXCEPT !.items = Append(Front(@), Operator(Append(Last(@).text, s.again))),
            !.again = "none"]

Unquoted(s, p) ==
  CASE p = Backslash                     -> [s EXCEPT !.escaped = TRUE]
    [] p \in Quotes                      ->
         [s EXCEPT !.quote = p, !.started = TRUE, !.boundary = FALSE]
    [] p \in Substitutions \cup Parentheses -> Refused
    [] p = "#" /\ s.boundary             -> [Flush(s) EXCEPT !.comment = TRUE]
    [] p = Newline                       -> AddOperator(s, <<";">>)
    [] p = Blank                         -> [Flush(s) EXCEPT !.boundary = TRUE]
    [] p \in Operators                   ->
         [AddOperator(s, <<p>>) EXCEPT !.again = IF p \in {"|", "&", ">"} THEN p ELSE "none"]
    [] OTHER                             ->
         LET active == p \in Globs \/ (p = "~" /\ ~s.started)
         IN  [Write(s, p) EXCEPT !.expands = @ \/ active]

Read(s, p) ==
  LET plain == [s EXCEPT !.again = "none"]
  IN  IF ~s.ok                THEN s
      ELSE IF p = s.again      THEN Doubled(s)
      ELSE IF s.escaped        THEN AfterBackslash(plain, p)
      ELSE IF s.comment        THEN InComment(plain, p)
      ELSE IF s.quote # "none" THEN InQuotes(plain, p)
      ELSE Unquoted(plain, p)

ReadAll(s, text) ==
  LET after[n \in 0..Len(text)] == IF n = 0 THEN s ELSE Read(after[n - 1], text[n])
  IN  after[Len(text)]

Scanned(s) == IF s.quote # "none" \/ s.escaped THEN Refused ELSE Flush(s)

-----------------------------------------------------------------------------
(* The risk of a simple command.                                            *)

R0 == 0
R1 == 1
R2 == 2
R3 == 3

\* "-r" stands for the recursive options, "-f" for those rm accepts.
ReadOnlyCommands == {"ls"}
DangerousCommands == {"sudo"}
CreatingCommands == {"mkdir"}
WriteCommands == CreatingCommands \cup {"cp"}

Names == {"rm", "ls", "cp", "mkdir", "sudo", "name"}    \* identifiers to the shell

\* commandName: the last element of a path; a backslash counts as a slash, and
\* trailing slashes do not.
CommandName(w) ==
  LET end == SelectLastInSeq(w, LAMBDA p : p # Backslash)
      slash == SelectLastInSeq(SubSeq(w, 1, end), LAMBDA p : p \in {"/etc/", Backslash})
  IN  IF end = slash + 1 THEN w[end] ELSE "unknown"

\* isShellAssignment: an identifier, then the equals sign.
IsAssignment(w) ==
  \E i \in DOMAIN w : w[i] = "X=" /\ \A j \in 1..(i - 1) : w[j] \in Names

\* isSystemPath, and with it the other places of isSensitiveWriteTarget.
IsSensitive(w) ==
  LET first == SelectInSeq(w, LAMBDA p : p # Backslash)
  IN  w # <<>> /\ (first = 0 \/ w[first] = "/etc/")

HasPrefix(w, p) == w # <<>> /\ w[1] = p

\* The loop of classifyRM: options end at the first "--".
Argue(r, w) ==
  LET option == r.options /\ \E p \in {"-r", "-f", "--"} : HasPrefix(w, p)
  IN  IF r.risk = R3 \/ (r.options /\ w = <<"-f">>) THEN r
      ELSE IF r.options /\ w = <<"--">>             THEN [r EXCEPT !.options = FALSE]
      ELSE IF option \/ IsSensitive(w)              THEN [r EXCEPT !.risk = R3]
      ELSE r

ClassifyRM(args) ==
  LET after[n \in 0..Len(args)] ==
        IF n = 0 THEN [options |-> TRUE, risk |-> R2] ELSE Argue(after[n - 1], args[n])
  IN  after[Len(args)].risk

ClassifyWords(words) ==
  LET command == CommandName(words[1])
      args == Tail(words)
  IN  IF \/ words[1] = <<>> \/ IsAssignment(words[1]) \/ command \in DangerousCommands
         \/ \E i \in DOMAIN words : CommandName(words[i]) = "sudo"
         \/ command \in WriteCommands /\ \E i \in DOMAIN args : IsSensitive(args[i])
      THEN R3
      ELSE CASE command = "rm"                -> ClassifyRM(args)
             [] command \in CreatingCommands  -> R1
             [] command \in ReadOnlyCommands  -> R0
             [] OTHER                         -> R2

-----------------------------------------------------------------------------
(* Classify: the verdict on a whole command line.                           *)

Higher(left, right) == IF right > left THEN right ELSE left
Raise(risk) == IF risk >= R3 THEN R3 ELSE risk + 1

ClassifySegment(segment) ==
  IF \E i \in DOMAIN segment : segment[i].expands
  THEN R3
  ELSE ClassifyWords([i \in DOMAIN segment |-> segment[i].text])

\* Mutant: the risk of a command takes the place of that of those before it.
EndSegmentForgets(r) ==
  IF r.segment = <<>>
  THEN r
  ELSE [r EXCEPT !.base = ClassifySegment(r.segment), !.segment = <<>>, !.command = TRUE]

EndSegment(r) ==
  IF r.segment = <<>>
  THEN r
  ELSE [r EXCEPT !.base = Higher(@, ClassifySegment(r.segment)),
                 !.segment = <<>>, !.command = TRUE]

\* "redirect" is the redirection that waits for its target.
Judge(r, current) ==
  IF r.redirect # <<>>
  THEN [r EXCEPT !.refused = \/ @
                             \/ current.kind = "operator"
                             \/ current.expands
                             \/ r.redirect # <<"<">> /\ IsSensitive(current.text),
                 !.redirect = <<>>, !.composed = TRUE]
  ELSE IF current.kind = "word"
  THEN [r EXCEPT !.segment = Append(@, current)]
  ELSE CASE current.text = <<"&">>        -> [r EXCEPT !.refused = TRUE]
         [] current.text \in Redirections -> [r EXCEPT !.redirect = current.text]
         [] OTHER                         -> [EndSegment(r) EXCEPT !.composed = TRUE]

Unjudged ==
  [base |-> R0, segment |-> <<>>, redirect |-> <<>>, composed |-> FALSE, command |-> FALSE,
   refused |-> FALSE]

Judged(items) ==
  LET after[n \in 0..Len(items)] == IF n = 0 THEN Unjudged ELSE Judge(after[n - 1], items[n])
  IN  after[Len(items)]

Classify(s) ==
  LET r == EndSegment(Judged(Scanned(s).items))
  IN  IF ~Scanned(s).ok \/ r.refused \/ r.redirect # <<>> \/ ~r.command
      THEN R3
      ELSE IF r.composed THEN Raise(r.base) ELSE r.base

-----------------------------------------------------------------------------
(* Composing a command line.                                                *)

VARIABLES
  scanner,   \* the scanner, after the pieces so far
  mode,      \* what the next piece is written in: "plain" or a kind of quotes
  meant,     \* what the line means to the one who writes it
  pieces     \* how many pieces it has

vars == <<scanner, mode, meant, pieces>>

\* word, begun: the word being written.  words: those of the current command.
\* all: every word so far.  danger: of the most dangerous command so far.
\* beyond: it means something the classifier does not judge.
Nothing ==
  [word |-> <<>>, begun |-> FALSE, words |-> <<>>, all |-> <<>>, target |-> <<>>,
   danger |-> R0, commands |-> 0, composed |-> FALSE, beyond |-> FALSE]

EndWord(m) ==
  IF ~m.begun
  THEN m
  ELSE LET ended == [m EXCEPT !.word = <<>>, !.begun = FALSE, !.all = Append(@, m.word)]
       IN  IF m.target = <<>>
           THEN [ended EXCEPT !.words = Append(@, m.word)]
           ELSE [ended EXCEPT !.target = <<>>, !.composed = TRUE,
                              !.beyond = @ \/ (m.target # <<"<">> /\ IsSensitive(m.word))]

\* The danger of a command by what it does to the server.  An option of rm is
\* one before any "--"; every other word of a command that writes is a target.
IsOption(words, i) ==
  /\ words[i] # <<>> /\ words[i][1] \in {"-r", "-f", "--"}
  /\ \A j \in 2..(i - 1) : words[j] # <<"--">>

Danger(words) ==
  LET name == CommandName(words[1])
      privileged == \E i \in DOMAIN words : CommandName(words[i]) = "sudo"
      removesTree == name = "rm" /\ \E i \in 2..Len(words) : IsOption(words, i) /\ words[i][1] = "-r"
      changesSystem == /\ name \in WriteCommands \cup {"rm"}
                       /\ \E i \in 2..Len(words) : IsSensitive(words[i])
  IN  IF privileged \/ removesTree \/ changesSystem \/ IsAssignment(words[1])
      THEN R3
      ELSE CASE name \in ReadOnlyCommands -> R0
             [] name \in CreatingCommands -> R1
             [] OTHER                     -> R2

EndCommand(m) ==
  LET w == EndWord(m)
      ended == [w EXCEPT !.beyond = @ \/ w.target # <<>>, !.target = <<>>, !.words = <<>>]
  IN  IF w.words = <<>>
      THEN ended
      ELSE [ended EXCEPT !.danger = Higher(@, Danger(w.words)), !.commands = @ + 1]

Init ==
  /\ scanner = Started /\ mode = "plain" /\ meant = Nothing /\ pieces = 0

\* The line goes on with this text, and has come to mean m.
Extend(text, m) ==
  /\ scanner' = ReadAll(scanner, text)
  /\ meant' = m

Add(text, m) ==
  /\ pieces + Len(text) <= MaxPieces
  /\ pieces' = pieces + Len(text)
  /\ Extend(text, m)

Put(m, w) == [m EXCEPT !.word = @ \o w, !.begun = TRUE]

Literal(p) ==
  /\ \/ mode = "plain" /\ p \notin (IF meant.begun THEN Special \ {"#", "~"} ELSE Special)
     \/ mode = Single /\ p # Single
     \/ mode = Double /\ p \notin Escapable
  /\ Add(<<p>>, Put(meant, <<p>>))
  /\ UNCHANGED mode

Escaped(p) ==
  /\ mode \in {"plain", Double} /\ p # Newline
  /\ Add(<<Backslash, p>>,
         Put(meant, IF mode = Double /\ p \notin Escapable THEN <<Backslash, p>> ELSE <<p>>))
  /\ UNCHANGED mode

JoinLines ==
  /\ mode \in {"plain", Double}
  /\ Add(<<Backslash, Newline>>, meant)
  /\ UNCHANGED mode

OpenQuotes(q) ==
  /\ mode = "plain"
  /\ Add(<<q>>, Put(meant, <<>>))
  /\ mode' = q

CloseQuotes ==
  /\ mode \in Quotes
  /\ Add(<<mode>>, meant)
  /\ mode' = "plain"

\* A word that srvgov quotes: for the bound, the word between two quotes.
Quote(w) ==
  /\ mode = "plain"
  /\ pieces + Len(w) + 2 <= MaxPieces
  /\ pieces' = pieces + Len(w) + 2
  /\ Extend(ShellQuote(w), Put(meant, w))
  /\ UNCHANGED mode

Separate ==
  /\ mode = "plain"
  /\ Add(<<Blank>>, EndWord(meant))
  /\ UNCHANGED mode

Chain(operator) ==
  /\ mode = "plain"
  /\ Add(operator, EndCommand(meant))
  /\ UNCHANGED mode

Redirect(operator) ==
  /\ mode = "plain" /\ EndWord(meant).target = <<>>
  /\ Add(operator, [EndWord(meant) EXCEPT !.target = operator])
  /\ UNCHANGED mode

\* A comment starts where a word would, and ends with its line.
Comment(p) ==
  /\ mode = "plain" /\ ~meant.begun /\ p # Newline
  /\ Add(<<"#", p, Newline>>, EndCommand(meant))
  /\ UNCHANGED mode

Expand ==
  /\ mode = "plain"
  /\ \/ \E p \in Globs : Add(<<p>>, [Put(meant, <<p>>) EXCEPT !.beyond = TRUE])
     \/ ~meant.begun /\ Add(<<"~">>, [Put(meant, <<"~">>) EXCEPT !.beyond = TRUE])
  /\ UNCHANGED mode

Substitute ==
  /\ \/ \E p \in Substitutions : mode # Single /\ Add(<<p>>, [meant EXCEPT !.beyond = TRUE])
     \/ \E p \in Parentheses : mode = "plain" /\ Add(<<p>>, [meant EXCEPT !.beyond = TRUE])
  /\ UNCHANGED mode

Background ==
  /\ mode = "plain"
  /\ Add(<<"&", Blank>>, [EndCommand(meant) EXCEPT !.beyond = TRUE])
  /\ UNCHANGED mode

Next ==
  \/ \E p \in Piece : Literal(p) \/ Escaped(p) \/ Comment(p)
  \/ \E q \in Quotes : OpenQuotes(q)
  \/ \E w \in Argument : Quote(w)
  \/ \E op \in {<<Newline>>, <<";">>, <<"|">>, <<"|", "|">>, <<"&", "&">>} : Chain(op)
  \/ \E op \in Redirections : Redirect(op)
  \/ JoinLines \/ CloseQuotes \/ Separate \/ Expand \/ Substitute \/ Background

Spec == Init /\ [][Next]_vars

-----------------------------------------------------------------------------

Text == Seq(Piece \cup Special)
Item == [kind : {"word", "operator"}, text : Text, expands : BOOLEAN]

Scanner ==
  [ok : BOOLEAN, items : Seq(Item), token : Text, started : BOOLEAN, expands : BOOLEAN,
   quote : {"none"} \cup Quotes, escaped : BOOLEAN, boundary : BOOLEAN, comment : BOOLEAN,
   again : {"none", "|", "&", ">"}]

Judgement ==
  [base : R0..R3, segment : Seq(Item), redirect : {<<>>} \cup Redirections,
   composed : BOOLEAN, command : BOOLEAN, refused : BOOLEAN]

Meaning ==
  [word : Text, begun : BOOLEAN, words : Seq(Text), all : Seq(Text),
   target : {<<>>} \cup Redirections, danger : R0..R3, commands : Nat, composed : BOOLEAN,
   beyond : BOOLEAN]

TypeOK ==
  /\ scanner \in Scanner
  /\ Judged(scanner.items) \in Judgement
  /\ mode \in {"plain"} \cup Quotes
  /\ meant \in Meaning
  /\ pieces \in 0..MaxPieces

WordsOf(items) ==
  LET found[n \in 0..Len(items)] ==
        IF n = 0
        THEN <<>>
        ELSE IF items[n].kind = "word" THEN Append(found[n - 1], items[n]) ELSE found[n - 1]
  IN  found[Len(items)]

\* However a command line is quoted, continued and commented, the scanner finds
\* in it the words that were meant, no more and no fewer, unless it refuses the
\* line; and it refuses none of which all words are literal, among them the
\* lines that srvgov builds with ShellQuote.
ReadsWhatIsMeant ==
  LET words == WordsOf(Scanned(scanner).items)
  IN  mode = "plain" /\ ~meant.beyond =>
        /\ Scanned(scanner).ok
        /\ [i \in DOMAIN words |-> words[i].text] = EndWord(meant).all
        /\ \A i \in DOMAIN words : ~words[i].expands

\* No spelling of a command line takes its risk below that of the most
\* dangerous command in it.  Commands or files that are connected have a risk
\* above it.  A line that is unfinished, or whose meaning depends on what the
\* server expands, has the highest.
RiskCoversWhatIsMeant ==
  LET line == EndCommand(meant)
      connected == line.commands > 1 \/ (line.commands = 1 /\ line.composed)
  IN  /\ mode # "plain" \/ line.beyond \/ line.commands = 0 => Classify(scanner) = R3
      /\ Classify(scanner) >= IF connected THEN Raise(line.danger) ELSE line.danger
=============================================================================
