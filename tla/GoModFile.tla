------------------------------ MODULE GoModFile ------------------------------
(***************************************************************************)
(* The go.mod of a build (internal/build/sdk_embedded.go): the loop over   *)
(* its lines that makes it use the injected SDK, and what go itself reads  *)
(* in such a file.                                                         *)
(*                                                                         *)
(* A line says one thing to go, which ignores how it is spaced, quoted or  *)
(* commented; the loop compares it with fixed prefixes and words, and      *)
(* recognises it only in the plain form.  "replace ( // c", "  )" and      *)
(* "replace  actionscat => ../x" are plain; "replace(", ") // c",          *)
(* "replace<TAB>actionscat => ../x" and a quoted name are not.  Blank      *)
(* lines are left out.                                                     *)
(***************************************************************************)
EXTENDS Integers, Sequences

\* "sdk" is an entry of a block that names the SDK, "other" any entry, comment or
\* directive that is not in the list, "other (" opens an exclude or retract block.
Kinds == {"require (", "replace (", "other (", ")", "require sdk", "replace sdk", "sdk",
          "require other", "other"}

\* text tells the lines of a file apart; the lines the code writes itself have 0.
Line == [says : Kinds, plain : BOOLEAN, text : Nat]
New(kind) == [says |-> kind, plain |-> TRUE, text |-> 0]
\* replace actionscat => ./_sdk
Directive == New("replace sdk")
Is(line, kind) == line.plain /\ line.says = kind

-----------------------------------------------------------------------------
\* The locals of CanonicalizeGoModSDK before its loop.
Start == [inRequireBlock |-> FALSE, inReplaceBlock |-> FALSE, replaceBlockLines |-> <<>>,
          hasRequireActionscat |-> FALSE, newLines |-> <<>>]

\* Mutant of Block: a block loses its brackets.
BlockBare(lines) == lines

\* A replace block is written anew unless nothing is left in it.
Block(lines) ==
  IF lines = <<>> THEN <<>> ELSE <<New("replace (")>> \o lines \o <<New(")")>>

\* One turn of the loop.
ReadLine(st, line) ==
  LET kept == [st EXCEPT !.newLines = Append(@, line)]
  IN  IF Is(line, "require (") THEN [kept EXCEPT !.inRequireBlock = TRUE]
      ELSE IF st.inRequireBlock
        THEN [kept EXCEPT !.inRequireBlock = ~ Is(line, ")"),
                          !.hasRequireActionscat = @ \/ Is(line, "sdk")]
      ELSE IF Is(line, "require sdk") THEN [kept EXCEPT !.hasRequireActionscat = TRUE]
      ELSE IF Is(line, "require other") THEN kept
      ELSE IF Is(line, "replace (")
        THEN [st EXCEPT !.inReplaceBlock = TRUE, !.replaceBlockLines = <<>>]
      ELSE IF st.inReplaceBlock
        THEN IF Is(line, ")")
               THEN [st EXCEPT !.inReplaceBlock = FALSE,
                               !.newLines = @ \o Block(st.replaceBlockLines)]
             ELSE IF Is(line, "sdk") THEN st
             ELSE [st EXCEPT !.replaceBlockLines = Append(@, line)]
      ELSE IF Is(line, "replace sdk") THEN st
      ELSE kept

\* The locals after the loop over lines.
Scan(lines) ==
  LET after[k \in 0..Len(lines)] ==
        IF k = 0 THEN Start ELSE ReadLine(after[k - 1], lines[k])
  IN  after[Len(lines)]

\* What go.mod says of the SDK is dropped where it is recognised; the directive
\* that replaces the SDK by the injected copy comes last.
CanonicalizeGoModSDK(lines) ==
  LET end == Scan(lines)
  IN  Append(IF end.hasRequireActionscat THEN end.newLines
             ELSE Append(end.newLines, New("require sdk")), Directive)

\* InjectSDK: a go.mod that is missing or blank is replaced by a whole new one.
GoModFor(lines) ==
  IF lines = <<>> THEN <<New("other"), New("require sdk"), Directive>>
  ELSE CanonicalizeGoModSDK(lines)

-----------------------------------------------------------------------------
\* What go reads, whatever the form of a line.
Opens == {"require (", "replace (", "other ("}
InBlock(lines, i, kind) ==
  \E j \in 1..i - 1 :
    /\ lines[j].says = kind
    /\ \A h \in j + 1..i - 1 : lines[h].says # ")"
InSome(lines, i) == \E kind \in Opens : InBlock(lines, i, kind)

\* Directives stand outside of blocks, entries inside, and every block is closed.
Placed(lines, i) ==
  /\ lines[i].says \in Opens \cup {"require sdk", "replace sdk", "require other"}
       => ~ InSome(lines, i)
  /\ lines[i].says \in {")", "sdk"} => InSome(lines, i)
WellFormed(lines) ==
  /\ \A i \in 1..Len(lines) : Placed(lines, i)
  /\ ~ InSome(lines, Len(lines) + 1)

Requires(lines, i) ==
  lines[i].says = "require sdk" \/ (lines[i].says = "sdk" /\ InBlock(lines, i, "require ("))
Replaces(lines, i) ==
  lines[i].says = "replace sdk" \/ (lines[i].says = "sdk" /\ InBlock(lines, i, "replace ("))

\* What the lines at I say: their texts, each with the kind of block it is in.
Meaning(lines, I) ==
  {<<lines[i].text, {kind \in Opens : InBlock(lines, i, kind)}>> :
     i \in {j \in I : lines[j].text # 0 /\ lines[j].says \notin Opens \cup {")"}}}

\* The brackets of blocks are in the form that the loop recognises.
PlainBrackets(lines) ==
  \A i \in 1..Len(lines) : lines[i].says \in Opens \cup {")"} => lines[i].plain

\* to is from with the SDK of the build: it is a go.mod that requires the SDK, whose
\* last line replaces it by the injected copy, and that says of all else what from
\* says.  The lines of from at Dropped are those that it does not say any more.
UsesSDK(from, to, Dropped) ==
  /\ WellFormed(to)
  /\ \E i \in 1..Len(to) : Requires(to, i)
  /\ to[Len(to)] = Directive
  /\ Meaning(to, 1..Len(to)) = Meaning(from, 1..Len(from) \ Dropped)
=============================================================================
