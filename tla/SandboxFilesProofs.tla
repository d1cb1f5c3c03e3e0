------------------------- MODULE SandboxFilesProofs -------------------------
(***************************************************************************)
(* Theorems about what Sandbox carries: files arrive as they are, outcomes *)
(* are honest, and the client keeps the contract of Backend.               *)
(***************************************************************************)
EXTENDS SandboxProofs, SequenceTheorems, FiniteSetTheorems, WellFoundedInduction

-----------------------------------------------------------------------------
(* The go.mod of a build.                                                  *)

\* What holds of 0, and of the successor of what it holds of, holds of every number.
LEMMA Climb ==
  ASSUME NEW S, 0 \in S, \A k \in Nat : k \in S => k + 1 \in S
  PROVE  \A k \in Nat : k \in S
<1>1. PICK T : T = {k \in Nat : k \notin S}
  OBVIOUS
<1>2. SUFFICES ASSUME T # {} PROVE FALSE
  BY <1>1
<1>3. T \subseteq Nat
  BY <1>1
<1>4. PICK x \in T : \A y \in T : ~ (<<y, x>> \in OpToRel(<, Nat))
  BY <1>2, <1>3, WFMin, NatLessThanWellFounded
<1>5. x \in Nat /\ x \notin S /\ x # 0
  BY <1>1, <1>4
<1>6. x - 1 \in Nat /\ x - 1 < x
  BY <1>5
<1>7. <<x - 1, x>> \in OpToRel(<, Nat)
  BY <1>5, <1>6 DEF OpToRel
<1>8. x - 1 \notin T
  BY <1>4, <1>7
<1>9. x - 1 \in S /\ (x - 1) + 1 = x
  BY <1>1, <1>5, <1>6, <1>8
<1> QED BY <1>5, <1>6, <1>9

\* The loop over the lines runs: its locals after k lines, for every k.
LEMMA ScanRuns ==
  ASSUME NEW lines, Len(lines) \in Nat
  PROVE  \E f : /\ f = [k \in 0..Len(lines) |->
                          IF k = 0 THEN Start ELSE ReadLine(f[k - 1], lines[k])]
               /\ Scan(lines) = f[Len(lines)]
<1>1. PICK S : S = {m \in Nat : \E f : f = [k \in 0..m |->
                        IF k = 0 THEN Start ELSE ReadLine(f[k - 1], lines[k])]}
  OBVIOUS
<1>2. 0 \in S
  <2>1. PICK f : f = [k \in 0..0 |-> Start]
    OBVIOUS
  <2>2. f = [k \in 0..0 |-> IF k = 0 THEN Start ELSE ReadLine(f[k - 1], lines[k])]
    BY <2>1
  <2> QED BY <1>1, <2>2
<1>3. ASSUME NEW m \in Nat, m \in S
      PROVE  m + 1 \in S
  <2>1. PICK f : f = [k \in 0..m |-> IF k = 0 THEN Start ELSE ReadLine(f[k - 1], lines[k])]
    BY <1>1, <1>3
  <2>2. PICK g : g = [k \in 0..m + 1 |-> IF k <= m THEN f[k] ELSE ReadLine(f[m], lines[m + 1])]
    OBVIOUS
  <2>3. ASSUME NEW k \in 0..m + 1
        PROVE  g[k] = IF k = 0 THEN Start ELSE ReadLine(g[k - 1], lines[k])
    <3>1. CASE k = 0
      <4>1. g[0] = f[0] /\ f[0] = Start
        BY <2>1, <2>2
      <4> QED BY <3>1, <4>1
    <3>2. CASE k \in 1..m
      <4>1. g[k] = f[k] /\ g[k - 1] = f[k - 1]
        BY <2>2, <3>2
      <4>2. f[k] = ReadLine(f[k - 1], lines[k])
        BY <2>1, <3>2
      <4> QED BY <3>2, <4>1, <4>2
    <3>3. CASE k = m + 1
      <4>1. g[m] = f[m] /\ g[m + 1] = ReadLine(f[m], lines[m + 1])
        BY <2>2
      <4>2. k - 1 = m /\ k # 0
        BY <3>3
      <4> QED BY <3>3, <4>1, <4>2
    <3> QED BY <3>1, <3>2, <3>3
  <2>4. g = [k \in 0..m + 1 |-> IF k = 0 THEN Start ELSE ReadLine(g[k - 1], lines[k])]
    BY <2>2, <2>3
  <2> QED BY <1>1, <2>4
<1>4. Len(lines) \in S
  BY <1>2, <1>3, Climb
<1>5. PICK f : f = CHOOSE g : g = [k \in 0..Len(lines) |->
                 IF k = 0 THEN Start ELSE ReadLine(g[k - 1], lines[k])]
  OBVIOUS
<1>6. f = [k \in 0..Len(lines) |-> IF k = 0 THEN Start ELSE ReadLine(f[k - 1], lines[k])]
  BY <1>1, <1>4, <1>5
<1>7. Scan(lines) = f[Len(lines)]
  BY <1>5 DEF Scan
<1> QED BY <1>6, <1>7

\* What the loop keeps are lines.
KeepsLines(st) ==
  /\ {"newLines", "replaceBlockLines"} \subseteq DOMAIN st
  /\ st.newLines \in Seq(Line)
  /\ st.replaceBlockLines \in Seq(Line)

LEMMA NewIsLine ==
  /\ \A kind \in Kinds : New(kind) \in Line
  /\ {New("replace ("), New(")"), New("other"), New("require sdk"), Directive} \subseteq Line
<1>1. \A kind \in Kinds : New(kind) \in Line
  BY DEF New, Line
<1>2. {"replace (", ")", "other", "require sdk", "replace sdk"} \subseteq Kinds
  BY DEF Kinds
<1> QED BY <1>1, <1>2 DEF Directive

\* Short sequences.
LEMMA ShortSeqs ==
  ASSUME NEW T, NEW a \in T, NEW b \in T, NEW c \in T, NEW s \in Seq(T)
  PROVE  /\ <<a>> \in Seq(T) /\ <<a, b>> \in Seq(T) /\ <<>> \in Seq(T)
         /\ <<a, b, c>> = Append(<<a, b>>, c)
         /\ <<a>> \o s \o <<b>> \in Seq(T)
<1>1. <<a>> \in Seq(T) /\ <<b>> \in Seq(T) /\ <<a, b>> \in Seq(T) /\ <<>> \in Seq(T)
  OBVIOUS
<1>2. <<a>> \o s \in Seq(T)
  BY <1>1
<1> QED BY <1>1, <1>2

LEMMA ReadLineKeeps ==
  ASSUME NEW st, KeepsLines(st), NEW line \in Line
  PROVE  KeepsLines(ReadLine(st, line))
<1>1. PICK new \in Seq(Line), lines \in Seq(Line) : new = st.newLines /\ lines = st.replaceBlockLines
  BY DEF KeepsLines
<1>2. PICK more \in Seq(Line), coll \in Seq(Line), shut \in Seq(Line), none \in Seq(Line) :
        /\ more = Append(new, line) /\ coll = Append(lines, line) /\ shut = new \o Block(lines)
        /\ none = <<>>
  <2>1. New("replace (") \in Line /\ New(")") \in Line
    BY NewIsLine
  <2>2. Block(lines) \in Seq(Line)
    BY <2>1, ShortSeqs DEF Block
  <2>3. /\ Append(new, line) \in Seq(Line) /\ Append(lines, line) \in Seq(Line)
        /\ new \o Block(lines) \in Seq(Line) /\ <<>> \in Seq(Line)
    BY <2>2
  <2> QED BY <2>3
<1>3. PICK kept : kept = [st EXCEPT !.newLines = Append(@, line)]
  OBVIOUS
<1>4. kept = [st EXCEPT !.newLines = more]
  BY <1>1, <1>2, <1>3
<1>5. KeepsLines(kept)
  BY <1>4 DEF KeepsLines
<1>6. /\ \A x : KeepsLines([kept EXCEPT !.inRequireBlock = x])
      /\ \A x : KeepsLines([kept EXCEPT !.hasRequireActionscat = x])
      /\ \A x, y : KeepsLines([kept EXCEPT !.inRequireBlock = x, !.hasRequireActionscat = y])
  BY <1>5 DEF KeepsLines
<1>7. /\ \A x : KeepsLines([st EXCEPT !.inReplaceBlock = x, !.replaceBlockLines = none])
      /\ \A x : KeepsLines([st EXCEPT !.inReplaceBlock = x, !.newLines = shut])
      /\ KeepsLines([st EXCEPT !.replaceBlockLines = coll])
  BY DEF KeepsLines
<1>8. /\ KeepsLines([kept EXCEPT !.inRequireBlock = ~ Is(line, ")"),
                                 !.hasRequireActionscat = @ \/ Is(line, "sdk")])
      /\ KeepsLines([st EXCEPT !.inReplaceBlock = TRUE, !.replaceBlockLines = <<>>])
      /\ KeepsLines([st EXCEPT !.inReplaceBlock = FALSE, !.newLines = @ \o Block(st.replaceBlockLines)])
      /\ KeepsLines([st EXCEPT !.replaceBlockLines = Append(@, line)])
  <2>1. KeepsLines([kept EXCEPT !.inRequireBlock = ~ Is(line, ")"),
                               !.hasRequireActionscat = @ \/ Is(line, "sdk")])
    BY <1>5 DEF KeepsLines
  <2>2. KeepsLines([st EXCEPT !.inReplaceBlock = TRUE, !.replaceBlockLines = <<>>])
    BY <1>2, <1>7
  <2>3. KeepsLines([st EXCEPT !.inReplaceBlock = FALSE, !.newLines = @ \o Block(st.replaceBlockLines)])
    BY <1>1, <1>2, <1>7
  <2>4. KeepsLines([st EXCEPT !.replaceBlockLines = Append(@, line)])
    BY <1>1, <1>2, <1>7
  <2> QED BY <2>1, <2>2, <2>3, <2>4
<1> QED BY <1>3, <1>5, <1>6, <1>8 DEF ReadLine

\* The go.mod of a build are lines, the last of which is the directive.
LEMMA GoModIsText ==
  ASSUME NEW lines \in Seq(Line)
  PROVE  /\ GoModFor(lines) \in Seq(Line)
         /\ Len(GoModFor(lines)) \in Nat \ {0}
         /\ GoModFor(lines)[Len(GoModFor(lines))] = Directive
<1>1. PICK f : /\ f = [k \in 0..Len(lines) |-> IF k = 0 THEN Start ELSE ReadLine(f[k - 1], lines[k])]
               /\ Scan(lines) = f[Len(lines)]
  BY ScanRuns
<1>2. KeepsLines(Scan(lines))
  <2>1. PICK S : S = {k \in Nat : k <= Len(lines) => KeepsLines(f[k])}
    OBVIOUS
  <2>2. 0 \in S
    <3>1. f[0] = Start
      BY <1>1
    <3>2. KeepsLines(Start)
      BY DEF Start, KeepsLines
    <3> QED BY <2>1, <3>1, <3>2
  <2>3. ASSUME NEW k \in Nat, k \in S
        PROVE  k + 1 \in S
    <3>1. SUFFICES ASSUME k + 1 <= Len(lines) PROVE KeepsLines(f[k + 1])
      BY <2>1
    <3>2. KeepsLines(f[k]) /\ k + 1 \in 1..Len(lines) /\ lines[k + 1] \in Line
      BY <2>1, <2>3, <3>1
    <3>3. f[k + 1] = ReadLine(f[k], lines[k + 1])
      BY <1>1, <3>2
    <3> QED BY <3>2, <3>3, ReadLineKeeps
  <2>4. Len(lines) \in S
    BY <2>2, <2>3, Climb
  <2> QED BY <1>1, <2>1, <2>4
<1>3. New("other") \in Line /\ New("require sdk") \in Line /\ Directive \in Line
  BY NewIsLine
<1>4. PICK s \in Seq(Line) : GoModFor(lines) = Append(s, Directive)
  <2>1. CASE lines = <<>>
    <3>1. GoModFor(lines) = <<New("other"), New("require sdk"), Directive>>
      BY <2>1 DEF GoModFor
    <3>2. PICK a \in Line, b \in Line, c \in Line : a = New("other") /\ b = New("require sdk") /\ c = Directive
      BY <1>3
    <3>3. <<a, b>> \in Seq(Line) /\ <<a, b, c>> = Append(<<a, b>>, c)
      BY ShortSeqs
    <3> QED BY <3>1, <3>2, <3>3
  <2>2. CASE lines # <<>>
    <3>1. Scan(lines).newLines \in Seq(Line)
      BY <1>2 DEF KeepsLines
    <3>2. Append(Scan(lines).newLines, New("require sdk")) \in Seq(Line)
      BY <1>3, <3>1, AppendProperties
    <3> QED BY <2>2, <3>1, <3>2 DEF GoModFor, CanonicalizeGoModSDK
  <2> QED BY <2>1, <2>2
<1>5. PICK d \in Line : d = Directive
  BY <1>3
<1>6. /\ Append(s, d) \in Seq(Line) /\ Len(Append(s, d)) = Len(s) + 1 /\ Len(s) \in Nat
      /\ Append(s, d)[Len(s) + 1] = d
  OBVIOUS
<1> QED BY <1>4, <1>5, <1>6

-----------------------------------------------------------------------------
(* Names and contents.                                                     *)

\* The names the process gives itself arrive as they are, and all the
\* candidates of BuildVersion are two places with one last component.
LEMMA PathFacts ==
  /\ Len(Candidates) = 3
  /\ CleanRel(Candidates[1]) = Canonical /\ CleanRel(Candidates[2]) = Canonical
  /\ CleanRel(Candidates[3]) = Entrypoint
  /\ Target(GoMod) = GoMod /\ Target(Entrypoint) = Entrypoint
  /\ \A n \in SdkFiles : Target(n) = n
  /\ <<Canonical[Len(Canonical)]>> = Entrypoint /\ <<Entrypoint[Len(Entrypoint)]>> = Entrypoint
  /\ GoMod \notin SdkFiles
<1>1. /\ CleanRel(GoMod) = GoMod /\ CleanRel(Entrypoint) = Entrypoint
      /\ \A n \in SdkFiles : CleanRel(n) = n
  BY DEF CleanRel, Entrypoint, GoMod, SdkFiles
<1>2. \A n \in SdkFiles \cup {GoMod, Entrypoint} : n \notin DOMAIN Expands
  BY NamesAssumption DEF OwnNames
<1>3. \A n \in SdkFiles \cup {GoMod, Entrypoint} : Target(n) = n
  BY <1>1, <1>2 DEF Target
<1>4. /\ Len(Candidates) = 3
      /\ CleanRel(Candidates[1]) = Canonical /\ CleanRel(Candidates[2]) = Canonical
      /\ CleanRel(Candidates[3]) = Entrypoint
      /\ <<Canonical[Len(Canonical)]>> = Entrypoint /\ <<Entrypoint[Len(Entrypoint)]>> = Entrypoint
      /\ GoMod \notin SdkFiles
  BY DEF Candidates, CleanRel, Canonical, Entrypoint, GoMod, SdkFiles
<1> QED BY <1>3, <1>4

LEMMA GivenNames ==
  /\ SdkFiles \cup {GoMod, Canonical, Entrypoint} \subseteq Names
  /\ \A v \in Versions : \A n \in DOMAIN v.source : n \in Names /\ Target(n) \in Names
<1>1. \A v \in Versions : DOMAIN v.source \subseteq SourceNames
  BY DEF SourceNames
<1> QED BY <1>1 DEF Names, OwnNames

LEMMA PathIsPlace ==
  ASSUME cand \in 1..3
  PROVE  /\ Path = IF cand = 3 THEN Entrypoint ELSE Canonical
         /\ Path \in Names /\ <<Path[Len(Path)]>> = Entrypoint
<1>1. Canonical \in Names /\ Entrypoint \in Names
  BY GivenNames
<1>2. cand = 1 \/ cand = 2 \/ cand = 3
  OBVIOUS
<1>3. Path = IF cand = 3 THEN Entrypoint ELSE Canonical
  BY <1>2, PathFacts DEF Path
<1> QED BY <1>1, <1>3, PathFacts

\* Cells are contents.
LEMMA CellsAreContent ==
  ASSUME NEW n \in Names \cup {Binary}, NEW k \in Nat
  PROVE  Cells(n, k) \in Content /\ Len(Cells(n, k)) = k /\ <<<<n, New("other")>>>> \in Content
<1>1. New("other") \in Line /\ \A i \in Nat : [New("other") EXCEPT !.text = i] \in Line
  BY DEF New, Line, Kinds
<1>2. PICK T, c : T = (Names \cup {Binary}) \X Line /\ c = <<n, New("other")>>
  OBVIOUS
<1>3. c \in T /\ \A i \in Nat : <<n, [New("other") EXCEPT !.text = i]>> \in T
  BY <1>1, <1>2
<1>4. <<c>> \in Seq(T)
  BY <1>3
<1>5. Cells(n, k) \in Seq(T) /\ Len(Cells(n, k)) = k
  <2>1. PICK f : f = [i \in 1..k |-> <<n, [New("other") EXCEPT !.text = i]>>]
    OBVIOUS
  <2>2. f = [i \in 1..k |-> f[i]] /\ \A i \in 1..k : f[i] \in T
    BY <1>3, <2>1
  <2>3. f \in Seq(T) /\ Len(f) = k
    BY <2>2
  <2> QED BY <2>1, <2>3 DEF Cells
<1> QED BY <1>2, <1>4, <1>5 DEF Content

\* What a build uploads: every source file as it is, the SDK, and the go.mod.
LEMMA BuildUploads ==
  ASSUME version \in Versions, NEW P, P = Payload(Build)
  PROVE  /\ DOMAIN P = DOMAIN version.source \cup SdkFiles \cup {GoMod}
         /\ \A n \in DOMAIN P : n \in Names /\ Target(n) \in Names /\ P[n] \in Content
         /\ \A n \in DOMAIN version.source \ {GoMod} : P[n] = Cells(n, version.source[n])
         /\ P[GoMod] # <<>>
         /\ P[GoMod] = Text(GoModFor(version.gomod))
         /\ P[GoMod][Len(P[GoMod])] = <<GoMod, Directive>>
<1>1. P = InjectSDK(version.source)
  BY DEF Payload
<1>2. PICK g, p : g = GoModFor(version.gomod) /\ p = Text(g)
  OBVIOUS
<1>3. /\ DOMAIN P = DOMAIN version.source \cup SdkFiles \cup {GoMod}
      /\ P[GoMod] = p
      /\ \A n \in DOMAIN version.source \ {GoMod} : P[n] = Cells(n, version.source[n])
      /\ \A n \in SdkFiles \ DOMAIN version.source : P[n] = <<<<n, New("other")>>>>
  BY <1>1, <1>2, PathFacts DEF InjectSDK
<1>4. /\ \A n \in DOMAIN version.source : n \in Names /\ Target(n) \in Names
      /\ \A n \in SdkFiles \cup {GoMod} : n \in Names /\ Target(n) \in Names
  <2>1. \A n \in SdkFiles \cup {GoMod} : Target(n) = n
    BY PathFacts
  <2>2. \A n \in SdkFiles \cup {GoMod} : n \in Names
    BY GivenNames
  <2>3. \A n \in DOMAIN version.source : n \in Names /\ Target(n) \in Names
    BY GivenNames
  <2> QED BY <2>1, <2>2, <2>3
<1>5. g \in Seq(Line) /\ Len(g) \in Nat \ {0} /\ g[Len(g)] = Directive
  BY <1>2, SandboxAssumption, GoModIsText
<1>6. p \in Content /\ Len(p) = Len(g) /\ p # <<>> /\ p[Len(p)] = <<GoMod, Directive>>
  <2>1. \A i \in 1..Len(g) : <<GoMod, g[i]>> \in (Names \cup {Binary}) \X Line
    BY <1>4, <1>5
  <2>2. p \in Seq((Names \cup {Binary}) \X Line) /\ Len(p) = Len(g)
    BY <1>2, <1>5, <2>1 DEF Text
  <2>3. p[Len(g)] = <<GoMod, g[Len(g)]>>
    BY <1>2, <1>5 DEF Text
  <2> QED BY <1>5, <2>2, <2>3 DEF Content
<1>7. \A n \in DOMAIN P : P[n] \in Content
  <2>1. \A n \in DOMAIN version.source \ {GoMod} : P[n] \in Content
    <3>1. \A n \in DOMAIN version.source : version.source[n] \in Nat
      BY SandboxAssumption
    <3>2. \A n \in DOMAIN version.source : Cells(n, version.source[n]) \in Content
      BY <1>4, <3>1, CellsAreContent
    <3> QED BY <1>3, <3>2
  <2>2. \A n \in SdkFiles \ DOMAIN version.source : P[n] \in Content
    BY <1>3, <1>4, CellsAreContent
  <2> QED BY <1>3, <1>6, <2>1, <2>2
<1> QED BY <1>2, <1>3, <1>4, <1>6, <1>7

(***************************************************************************)
(* The inductive invariant.  A transfer is described by what was sent of   *)
(* each file, an export by what was read of its candidate; the phases say  *)
(* why neither the artifact nor the binary changes once they are read.     *)
(***************************************************************************)
\* What comes before what: the artifact is saved once, by a build that is then
\* over; runs come after it; a program is executed last, and an owner that is not
\* yet uploading has nothing under way.
Phases ==
  /\ DOMAIN ran = Sessions
  /\ pc[Build] \notin {"release", "done"} => artifact = None
  /\ pc[Build] \in {"create", "upload", "exec"} => cand = 1 /\ reads = 0 /\ buf = None
  /\ pc[Build] = "save" => exported \in Content
  /\ artifact # None => DOMAIN artifact = {Entrypoint}
  /\ \A s \in Sessions :
       /\ pc[s] \in {"export", "save"} => s = Build
       /\ pc[s] = "upload" => s \notin Checks
       /\ pc[s] \in {"create", "upload", "exec"} => ran[s] = None
       /\ pc[s] = "create" => sending[s] = None /\ sent[s] = 0
       /\ s \in Runs /\ (pc[s] \in {"upload", "exec"} \/ ran[s] # None) => artifact # None

\* What s uploads, by where it goes.
Landing(s) == {Target(n) : n \in DOMAIN Payload(s)}
Arrived(s, t) ==
  /\ t \in DOMAIN worker[s].files
  /\ \E m \in DOMAIN Payload(s) : Target(m) = t /\ worker[s].files[t] = Payload(s)[m]
Promised(s, t) ==
  "touch" \in ignored => \A m \in DOMAIN Payload(s) : Target(m) = t => Payload(s)[m] # <<>>

\* An upload under way: what is not begun and the file in transfer are files of
\* the payload, and of the latter the worker has the cells sent so far.
Transfer(s) ==
  pc[s] \in {"upload", "exec"} /\ s \notin Checks =>
    /\ todo[s] \subseteq DOMAIN Payload(s)
    /\ pc[s] = "exec" => todo[s] = {} /\ sending[s] = None
    /\ sending[s] = None => sent[s] = 0
    /\ sending[s] # None =>
         /\ sending[s] \in DOMAIN Payload(s)
         /\ sent[s] = 0 \/ sent[s] < Len(Payload(s)[sending[s]])
    /\ worker[s] # None /\ sent[s] # 0 =>
         /\ Target(sending[s]) \in DOMAIN worker[s].files
         /\ worker[s].files[Target(sending[s])] = SubSeq(Payload(s)[sending[s]], 1, sent[s])

\* What is neither to be sent nor in transfer has arrived, and nothing else.
Delivery(s) ==
  pc[s] \in {"upload", "exec"} /\ s \notin Checks /\ worker[s] # None =>
    /\ DOMAIN worker[s].files \subseteq Landing(s)
    /\ \A n \in DOMAIN Payload(s) \ todo[s] :
         (sending[s] # None => Target(n) # Target(sending[s])) /\ Promised(s, Target(n))
           => Arrived(s, Target(n))

\* What the build left, at the place where it is looked for.
Place == IF Canonical \in DOMAIN built.left THEN Canonical ELSE Entrypoint

\* An export under way: the buffer is the beginning of the candidate, whole
\* chunks of it; a candidate was only passed over if it was not there.
Export ==
  /\ pc[Build] = "export" /\ worker[Build] # None =>
       /\ worker[Build].files = built.left
       /\ buf # None =>
            /\ Path \in DOMAIN built.left
            /\ reads * ExportChunk <= Len(built.left[Path])
            /\ buf = SubSeq(built.left[Path], 1, reads * ExportChunk)
  /\ pc[Build] = "export" /\ buf = None => reads = 0
  /\ pc[Build] \in {"export", "save"} /\ ignored = {} /\ cand = 3 => Canonical \notin DOMAIN built.left
  /\ pc[Build] = "save" /\ ignored = {} => Path \in DOMAIN built.left /\ exported = built.left[Path]
  /\ artifact # None /\ ignored = {} => artifact[Entrypoint] = built.left[Place]

\* The parts of RunExecutesBuilt and OutcomeIsHonest.
Executed(r) == ran[r] # None /\ ignored = {} => ran[r].bytes \in {None, built.left[Place]}
Honest(r) ==
  ran[r] # None =>
    /\ result[r] = "succeeded" =>
         /\ ran[r].exit = None \/ (ran[r].exit = 0 /\ ran[r].bytes # None)
         /\ ran[r].span <= version.timeout
    /\ result[r] = "timed_out" => ran[r].span > Min2(version.timeout, MaxTimeout)
    /\ (ran[r].span > version.timeout /\ version.timeout + MaxLag <= ClientTimeout
          /\ version.timeout <= MaxTimeout) => result[r] = "timed_out"

FilesInv ==
  /\ TypeOK /\ Phases
  /\ \A s \in Sessions : Transfer(s) /\ Delivery(s)
  /\ Export /\ BuildSeesSource
  /\ \A r \in Runs : Executed(r) /\ Honest(r)

LEMMA PartsOfRuns == (\A r \in Runs : Executed(r) /\ Honest(r)) <=> RunExecutesBuilt /\ OutcomeIsHonest
BY DEF Executed, Honest, Place, RunExecutesBuilt, OutcomeIsHonest

\* There are no files yet.
LEMMA FilesInit == Init => FilesInv
<1> SUFFICES ASSUME Init PROVE FilesInv
  OBVIOUS
<1>1. PICK opened \in Scenarios :
        pc = [s \in Sessions |-> IF s \in opened THEN "create" ELSE "done"]
  BY DEF Init
<1>2. pc \in [Sessions -> PC] /\ \A s \in Sessions : pc[s] \in {"create", "done"}
  BY <1>1 DEF PC
<1>3. TypeOK
  BY <1>2, PathFacts, NamesAssumption DEF Init, TypeOK, ContentOrNone
<1>4. Phases
  BY <1>2 DEF Init, Phases, Sessions
<1>5. \A s \in Sessions : Transfer(s) /\ Delivery(s)
  BY <1>2 DEF Transfer, Delivery
<1>6. Export /\ BuildSeesSource /\ \A r \in Runs : Executed(r) /\ Honest(r)
  <2>1. pc[Build] \in {"create", "done"} /\ artifact = None /\ built = None /\ \A r \in Runs : ran[r] = None
    BY <1>2 DEF Init, Sessions
  <2> QED BY <2>1 DEF Export, BuildSeesSource, Executed, Honest
<1> QED BY <1>3, <1>4, <1>5, <1>6 DEF FilesInv

-----------------------------------------------------------------------------
\* What is uploaded depends on the version and the artifact only.
LEMMA SamePayload ==
  ASSUME version' = version
  PROVE  /\ \A s : s = Build \/ artifact' = artifact => Payload(s)' = Payload(s)
<1>1. \A lines : CanonicalizeGoModSDK(lines)' = CanonicalizeGoModSDK(lines)
  BY DEF CanonicalizeGoModSDK
<1>2. InjectSDK(version.source)' = InjectSDK(version.source)
  BY <1>1 DEF InjectSDK
<1> QED BY <1>2 DEF Payload

\* What a session that uploads has to send.
LEMMA UploadsAreFiles ==
  ASSUME TypeOK, Phases, NEW s \in Sessions \ Checks,
         s = Build \/ artifact # None
  PROVE  \A n \in DOMAIN Payload(s) :
           n \in Names /\ Target(n) \in Names /\ Payload(s)[n] \in Content
<1>1. CASE s = Build
  BY <1>1, BuildUploads DEF TypeOK
<1>2. CASE s # Build
  <2>1. Payload(s) = artifact /\ artifact # None /\ IsFiles(artifact) /\ DOMAIN artifact = {Entrypoint}
    BY <1>2 DEF Payload, TypeOK, Phases
  <2> QED BY <2>1, PathFacts DEF IsFiles
<1> QED BY <1>1, <1>2

\* A session that is not touched goes on as it was, whether or not it loses its
\* worker.
LEMMA OthersTransfer ==
  ASSUME NEW t, Transfer(t), Delivery(t),
         pc'[t] \in {"upload", "exec"} => pc'[t] = pc[t],
         todo'[t] = todo[t], sending'[t] = sending[t], sent'[t] = sent[t],
         worker'[t] = worker[t] \/ worker'[t] = None,
         ignored \subseteq ignored',
         pc'[t] \in {"upload", "exec"} => Payload(t)' = Payload(t)
  PROVE  Transfer(t)' /\ Delivery(t)'
<1> SUFFICES ASSUME pc'[t] \in {"upload", "exec"}, t \notin Checks PROVE Transfer(t)' /\ Delivery(t)'
  BY DEF Transfer, Delivery
<1>1. Transfer(t)'
  BY DEF Transfer
<1>2. Delivery(t)'
  BY DEF Delivery, Landing, Arrived, Promised
<1> QED BY <1>1, <1>2

-----------------------------------------------------------------------------
Before == {"create", "upload", "exec"}
After == {"release", "done"}
Results == {"none", "succeeded", "failed", "timed_out"}

\* A step of one session that builds, reads and saves nothing: what remains to be
\* shown is about its own transfer and its own outcome.
LEMMA SessionStep ==
  ASSUME FilesInv, NEW s \in Sessions, NEW to \in PC,
         pc' = [pc EXCEPT ![s] = to] \/ (pc' = pc /\ to = pc[s]),
         to \in {"export", "save"} \cup {"create"} => to = pc[s],
         to \in Before => pc[s] \in Before,
         to = "upload" => s \notin Checks,
         s \in Runs /\ to \in {"upload", "exec"} => artifact # None,
         version' = version, UNCHANGED export, UNCHANGED <<artifact, built>>,
         ignored \subseteq ignored', ignored' \subseteq {"touch", "locate", "read", "candidate"},
         {late', held', abandoned', unreleased'} \subseteq SUBSET Sessions,
         DOMAIN worker' = Sessions,
         \A t \in Sessions \ {s} : worker'[t] = worker[t],
         worker'[s] # None => worker'[s].policy \in Policies /\ IsFiles(worker'[s].files),
         to = "export" => worker'[s] \in {None, worker[s]},
         todo' \in [Sessions -> SUBSET Names], sending' \in [Sessions -> Names \cup {None}],
         sent' \in [Sessions -> Nat],
         \A t \in Sessions \ {s} : todo'[t] = todo[t] /\ sending'[t] = sending[t] /\ sent'[t] = sent[t],
         to = "create" => sending'[s] = None /\ sent'[s] = 0,
         Transfer(s)' /\ Delivery(s)',
         result' \in [Sessions -> Results], DOMAIN ran' = Sessions,
         \A t \in Sessions \ {s} : result'[t] = result[t] /\ ran'[t] = ran[t],
         to \in Before => ran'[s] = None,
         ran'[s] # None =>
           /\ ContentOrNone(ran'[s].bytes) /\ ran'[s].span \in 0..MaxSpan /\ ran'[s].exit \in {0, 1, None}
           /\ s \in Runs => artifact # None /\ Executed(s)' /\ Honest(s)'
  PROVE  FilesInv'
<1>1. /\ TypeOK /\ Phases /\ Export /\ BuildSeesSource
      /\ \A t \in Sessions : Transfer(t) /\ Delivery(t)
      /\ \A r \in Runs : Executed(r) /\ Honest(r)
  BY DEF FilesInv
<1>2. /\ pc' \in [Sessions -> PC] /\ pc'[s] = to /\ pc[s] \in PC
      /\ \A t \in Sessions \ {s} : pc'[t] = pc[t]
  <2>1. pc \in [Sessions -> PC]
    BY <1>1 DEF TypeOK
  <2>2. CASE pc' = [pc EXCEPT ![s] = to]
    BY <2>1, <2>2
  <2>3. CASE pc' = pc /\ to = pc[s]
    BY <2>1, <2>3
  <2> QED BY <2>1, <2>2, <2>3
<1>3. /\ UNCHANGED <<version, cand, reads, buf, exported, artifact, built>>
      /\ Build \in Sessions /\ Runs \subseteq Sessions
  BY DEF export, Sessions
<1>4. TypeOK'
  BY <1>1, <1>2, <1>3 DEF TypeOK, Results
<1>5. Phases'
  <2>1. pc'[Build] \notin After => pc[Build] \notin After
    BY <1>2, <1>3 DEF Before, After, PC
  <2>2. pc'[Build] \in Before => pc[Build] \in Before
    BY <1>2, <1>3
  <2>3. pc'[Build] = "save" => pc[Build] = "save"
    BY <1>2, <1>3
  <2>4. ASSUME NEW t \in Sessions
        PROVE  /\ pc'[t] \in {"export", "save"} => t = Build
               /\ pc'[t] = "upload" => t \notin Checks
               /\ pc'[t] \in Before => ran'[t] = None
               /\ pc'[t] = "create" => sending'[t] = None /\ sent'[t] = 0
               /\ t \in Runs /\ (pc'[t] \in {"upload", "exec"} \/ ran'[t] # None) => artifact # None
    <3>1. CASE t = s
      BY <1>1, <1>2, <3>1 DEF Phases
    <3>2. CASE t # s
      BY <1>1, <1>2, <3>2 DEF Phases, Before
    <3> QED BY <3>1, <3>2
  <2> QED BY <1>1, <1>3, <2>1, <2>2, <2>3, <2>4 DEF Phases, Before, After
<1>6. ASSUME NEW t \in Sessions PROVE Transfer(t)' /\ Delivery(t)'
  <2>1. CASE t = s
    BY <2>1
  <2>2. CASE t # s
    <3>1. Payload(t)' = Payload(t)
      BY <1>3, SamePayload
    <3> QED BY <1>1, <1>2, <2>2, <3>1, OthersTransfer
  <2> QED BY <2>1, <2>2
<1>7. Export'
  <2>1. Path' = Path /\ Place' = Place
    BY <1>3 DEF Path, Candidates, Place
  <2>2. pc'[Build] \in {"export", "save"} => pc'[Build] = pc[Build]
    BY <1>2, <1>3
  <2>3. pc'[Build] = "export" /\ worker'[Build] # None => worker'[Build] = worker[Build]
    BY <1>2, <1>3
  <2> QED BY <1>1, <1>3, <2>1, <2>2, <2>3 DEF Export
<1>8. BuildSeesSource'
  BY <1>1, <1>3 DEF BuildSeesSource
<1>9. ASSUME NEW r \in Runs PROVE Executed(r)' /\ Honest(r)'
  <2>1. CASE r = s
    BY <2>1 DEF Executed, Honest
  <2>2. CASE r # s
    <3>1. ran'[r] = ran[r] /\ result'[r] = result[r] /\ Place' = Place
      BY <1>3, <2>2 DEF Place
    <3> QED BY <1>1, <1>3, <3>1 DEF Executed, Honest
  <2> QED BY <2>1, <2>2
<1> QED BY <1>4, <1>5, <1>6, <1>7, <1>8, <1>9 DEF FilesInv

\* In particular, a step that executes nothing and records an outcome only of a
\* session that has executed nothing.
LEMMA QuietStep ==
  ASSUME FilesInv, NEW s \in Sessions, NEW to \in PC,
         pc' = [pc EXCEPT ![s] = to] \/ (pc' = pc /\ to = pc[s]),
         to \in {"export", "save"} \cup {"create"} => to = pc[s],
         to \in Before => pc[s] \in Before,
         to = "upload" => s \notin Checks,
         s \in Runs /\ to \in {"upload", "exec"} => artifact # None,
         version' = version, UNCHANGED export, UNCHANGED <<artifact, built, ran>>,
         ignored \subseteq ignored', ignored' \subseteq {"touch", "locate", "read", "candidate"},
         {late', held', abandoned', unreleased'} \subseteq SUBSET Sessions,
         DOMAIN worker' = Sessions,
         \A t \in Sessions \ {s} : worker'[t] = worker[t],
         worker'[s] # None => worker'[s].policy \in Policies /\ IsFiles(worker'[s].files),
         to = "export" => worker'[s] \in {None, worker[s]},
         todo' \in [Sessions -> SUBSET Names], sending' \in [Sessions -> Names \cup {None}],
         sent' \in [Sessions -> Nat],
         \A t \in Sessions \ {s} : todo'[t] = todo[t] /\ sending'[t] = sending[t] /\ sent'[t] = sent[t],
         to = "create" => sending'[s] = None /\ sent'[s] = 0,
         Transfer(s)' /\ Delivery(s)',
         \/ result' = result
         \/ (pc[s] \in Before \/ s \notin Runs) /\ \E v \in Results : result' = [result EXCEPT ![s] = v]
  PROVE  FilesInv'
<1>1. /\ result \in [Sessions -> Results] /\ DOMAIN ran = Sessions
      /\ pc[s] \in Before => ran[s] = None
      /\ s \in Runs /\ ran[s] # None => artifact # None
      /\ s \in Runs => Executed(s) /\ Honest(s)
      /\ ran[s] # None =>
           ContentOrNone(ran[s].bytes) /\ ran[s].span \in 0..MaxSpan /\ ran[s].exit \in {0, 1, None}
  BY DEF FilesInv, TypeOK, Phases, Results, Before
<1>2. /\ result' \in [Sessions -> Results]
      /\ \A t \in Sessions \ {s} : result'[t] = result[t]
      /\ s \in Runs /\ ran[s] # None => result'[s] = result[s]
  BY <1>1
<1>3. s \in Runs /\ ran[s] # None => Executed(s)' /\ Honest(s)'
  BY <1>1, <1>2 DEF Executed, Honest, Place
<1> QED BY SessionStep, <1>1, <1>2, <1>3

\* An owner that goes to its release, or from there, has nothing under way.
LEMMA EndStep ==
  ASSUME FilesInv, NEW s \in Sessions, NEW to \in After,
         pc' = [pc EXCEPT ![s] = to] \/ (pc' = pc /\ to = pc[s]),
         version' = version, UNCHANGED <<upload, export>>, UNCHANGED <<artifact, built, ran>>,
         ignored' = ignored, {late', held', abandoned', unreleased'} \subseteq SUBSET Sessions,
         DOMAIN worker' = Sessions,
         \A t \in Sessions \ {s} : worker'[t] = worker[t],
         worker'[s] # None => worker'[s].policy \in Policies /\ IsFiles(worker'[s].files),
         \/ result' = result
         \/ (pc[s] \in Before \/ s \notin Runs) /\ \E v \in Results : result' = [result EXCEPT ![s] = v]
  PROVE  FilesInv'
<1>1. /\ to \in PC /\ to \notin Before /\ to # "export" /\ to # "save"
      /\ todo' = todo /\ sending' = sending /\ sent' = sent /\ UNCHANGED export
  BY DEF After, Before, PC, upload
<1>2. /\ pc \in [Sessions -> PC] /\ todo \in [Sessions -> SUBSET Names] /\ sent \in [Sessions -> Nat]
      /\ sending \in [Sessions -> Names \cup {None}] /\ ignored \subseteq {"touch", "locate", "read", "candidate"}
  BY DEF FilesInv, TypeOK
<1>3. pc'[s] = to
  BY <1>2
<1>4. Transfer(s)' /\ Delivery(s)'
  BY <1>1, <1>3 DEF Transfer, Delivery, Before
<1>5. /\ to \notin {"export", "save"} \cup {"create"} /\ to # "upload" /\ to # "exec" /\ to # "create"
      /\ to \notin {"upload", "exec"}
  BY <1>1 DEF Before
<1> QED BY QuietStep, <1>1, <1>2, <1>4, <1>5

\* What the workers of the other sessions are.
LEMMA WorkerTypes ==
  ASSUME TypeOK, NEW s \in Sessions,
         \/ worker' = worker \/ worker' = [worker EXCEPT ![s] = None]
         \/ \E p \in Policies : worker' = [worker EXCEPT ![s] = [policy |-> p, files |-> <<>>]]
  PROVE  /\ DOMAIN worker' = Sessions
         /\ \A t \in Sessions \ {s} : worker'[t] = worker[t]
         /\ worker'[s] # None => worker'[s].policy \in Policies /\ IsFiles(worker'[s].files)
<1>1. DOMAIN worker = Sessions /\ (worker[s] # None => worker[s].policy \in Policies /\ IsFiles(worker[s].files))
  BY DEF TypeOK
<1>2. CASE worker' = worker \/ worker' = [worker EXCEPT ![s] = None]
  BY <1>1, <1>2
<1>3. ASSUME NEW p \in Policies, worker' = [worker EXCEPT ![s] = [policy |-> p, files |-> <<>>]]
      PROVE  /\ DOMAIN worker' = Sessions
             /\ \A t \in Sessions \ {s} : worker'[t] = worker[t]
             /\ worker'[s].policy \in Policies /\ IsFiles(worker'[s].files)
  <2>1. worker'[s] = [policy |-> p, files |-> <<>>]
    BY <1>1, <1>3
  <2>2. IsFiles(<<>>)
    BY DEF IsFiles
  <2> QED BY <1>1, <1>3, <2>1, <2>2
<1> QED BY <1>2, <1>3

LEMMA EndSteps ==
  ASSUME Inv, FilesInv, NEW s \in Sessions,
         \/ CreateRefused(s) \/ CreateAbandoned(s) \/ LateCreation(s) \/ UploadFails(s)
         \/ QueryToolchain(s) \/ ExecFails(s) \/ Release(s) \/ ReleaseFails(s)
  PROVE  FilesInv'
<1>1. TypeOK /\ late \subseteq Sessions /\ held \subseteq Sessions
      /\ abandoned \subseteq Sessions /\ unreleased \subseteq Sessions
  BY DEF FilesInv, TypeOK
<1> USE DEF gateway, marks, outcome
<1>2. CASE CreateRefused(s) \/ UploadFails(s) \/ ExecFails(s) \/ QueryToolchain(s)
  <2>1. /\ pc' = [pc EXCEPT ![s] = "release"] /\ worker' = worker /\ version' = version
        /\ UNCHANGED <<upload, export>> /\ UNCHANGED <<artifact, built, ran>>
        /\ UNCHANGED <<ignored, late, held, abandoned, unreleased>>
        /\ result' = result \/ (pc[s] \in Before /\ result' = [result EXCEPT ![s] = "failed"])
    BY <1>2 DEF CreateRefused, UploadFails, ExecFails, QueryToolchain, Fails, Goes, Begins, Before
  <2>2. "release" \in After /\ "failed" \in Results
    BY DEF After, Results
  <2>3. /\ DOMAIN worker' = Sessions /\ \A t \in Sessions \ {s} : worker'[t] = worker[t]
        /\ worker'[s] # None => worker'[s].policy \in Policies /\ IsFiles(worker'[s].files)
    BY <1>1, <2>1, WorkerTypes
  <2>4. \/ result' = result
        \/ (pc[s] \in Before \/ s \notin Runs) /\ \E v \in Results : result' = [result EXCEPT ![s] = v]
    BY <2>1, <2>2
  <2>5. /\ version' = version /\ ignored' = ignored /\ pc' = [pc EXCEPT ![s] = "release"]
        /\ {late', held', abandoned', unreleased'} \subseteq SUBSET Sessions
    BY <1>1, <2>1
  <2>6. UNCHANGED <<upload, export>> /\ UNCHANGED <<artifact, built, ran>>
    BY <2>1
  <2> QED BY <2>2, <2>3, <2>4, <2>5, <2>6, EndStep
<1>3. CASE CreateAbandoned(s)
  <2>1. /\ pc' = [pc EXCEPT ![s] = "release"] /\ worker' = worker /\ version' = version
        /\ UNCHANGED <<upload, export>> /\ UNCHANGED <<artifact, built, ran>>
        /\ UNCHANGED <<ignored, held, unreleased>>
        /\ late' = late \cup {s} /\ abandoned' = abandoned \cup {s}
        /\ pc[s] \in Before /\ result' = [result EXCEPT ![s] = "failed"]
    BY <1>3 DEF CreateAbandoned, Fails, Goes, Begins, Before
  <2>2. "release" \in After /\ "failed" \in Results
    BY DEF After, Results
  <2>3. /\ DOMAIN worker' = Sessions /\ \A t \in Sessions \ {s} : worker'[t] = worker[t]
        /\ worker'[s] # None => worker'[s].policy \in Policies /\ IsFiles(worker'[s].files)
    BY <1>1, <2>1, WorkerTypes
  <2>4. {late', held', abandoned', unreleased'} \subseteq SUBSET Sessions
    BY <1>1, <2>1
  <2>5. pc[s] \in Before /\ \E v \in Results : result' = [result EXCEPT ![s] = v]
    BY <2>1, <2>2
  <2>6. version' = version /\ ignored' = ignored /\ pc' = [pc EXCEPT ![s] = "release"]
        /\ UNCHANGED <<upload, export>> /\ UNCHANGED <<artifact, built, ran>>
    BY <2>1
  <2> QED BY <2>2, <2>3, <2>4, <2>5, <2>6, EndStep
<1>4. CASE LateCreation(s)
  <2>1. pc[s] \in After
    BY <1>4 DEF LateCreation, Inv, Shapes, AbandonedIsOver, After
  <2>2. /\ pc' = pc /\ version' = version
        /\ UNCHANGED <<upload, export>> /\ UNCHANGED <<artifact, built, ran>>
        /\ UNCHANGED <<ignored, held, abandoned, unreleased>> /\ late' = late \ {s} /\ result' = result
        /\ \/ \E p \in Policies : worker' = [worker EXCEPT ![s] = [policy |-> p, files |-> <<>>]]
           \/ worker' = worker
    BY <1>4 DEF LateCreation
  <2>3. /\ DOMAIN worker' = Sessions /\ \A t \in Sessions \ {s} : worker'[t] = worker[t]
        /\ worker'[s] # None => worker'[s].policy \in Policies /\ IsFiles(worker'[s].files)
    BY <1>1, <2>2, WorkerTypes
  <2>4. {late', held', abandoned', unreleased'} \subseteq SUBSET Sessions
    BY <1>1, <2>2
  <2>5. version' = version /\ ignored' = ignored /\ pc' = pc /\ result' = result
        /\ UNCHANGED <<upload, export>> /\ UNCHANGED <<artifact, built, ran>>
    BY <2>2
  <2> QED BY <2>1, <2>3, <2>4, <2>5, EndStep
<1>5. CASE Release(s) \/ ReleaseFails(s)
  <2>1. /\ pc' = [pc EXCEPT ![s] = "done"] /\ version' = version
        /\ UNCHANGED <<upload, export>> /\ UNCHANGED <<artifact, built, ran>>
        /\ UNCHANGED <<ignored, late, abandoned>> /\ result' = result
        /\ held' \subseteq held /\ unreleased' \subseteq unreleased \cup {s}
        /\ worker' = worker \/ worker' = [worker EXCEPT ![s] = None]
    BY <1>5 DEF Release, ReleaseFails, Goes
  <2>2. "done" \in After
    BY DEF After
  <2>3. /\ DOMAIN worker' = Sessions /\ \A t \in Sessions \ {s} : worker'[t] = worker[t]
        /\ worker'[s] # None => worker'[s].policy \in Policies /\ IsFiles(worker'[s].files)
    BY <1>1, <2>1, WorkerTypes
  <2>4. {late', held', abandoned', unreleased'} \subseteq SUBSET Sessions
    BY <1>1, <2>1
  <2> QED BY <2>1, <2>2, <2>3, <2>4, EndStep
<1> QED BY <1>2, <1>3, <1>4, <1>5

\* A session gets a worker: it has all to send, and the worker has nothing.
LEMMA CreateKeeps ==
  ASSUME FilesInv, NEW s \in Sessions, CreateSession(s)
  PROVE  FilesInv'
<1>1. TypeOK /\ Phases /\ pc \in [Sessions -> PC] /\ pc[s] = "create" /\ pc[s] \in Before
  BY DEF FilesInv, TypeOK, CreateSession, Begins, Before
<1>2. PICK p \in Policies, ready \in BOOLEAN :
        /\ worker' = [worker EXCEPT ![s] = [policy |-> p, files |-> <<>>]]
        /\ IF Conforms(Asked(s), p) /\ ready
             THEN /\ held' = held \cup {s}
                  /\ Goes(s, IF s \in Checks THEN "exec" ELSE "upload")
                  /\ todo' = [todo EXCEPT ![s] = IF s \in Checks THEN {} ELSE DOMAIN Payload(s)]
                  /\ UNCHANGED result
             ELSE /\ Fails(s)
                  /\ UNCHANGED <<held, todo>>
        /\ UNCHANGED <<version, late, sending, sent, export, artifact, built, ran, marks>>
  BY DEF CreateSession
<1>3. /\ DOMAIN worker' = Sessions /\ \A t \in Sessions \ {s} : worker'[t] = worker[t]
      /\ worker'[s] # None => worker'[s].policy \in Policies /\ IsFiles(worker'[s].files)
  BY <1>1, <1>2, WorkerTypes
<1>4. /\ UNCHANGED <<version, late, sending, sent, artifact, built, ran, ignored, abandoned, unreleased>>
      /\ UNCHANGED export
      /\ late \subseteq Sessions /\ held \subseteq Sessions
      /\ abandoned \subseteq Sessions /\ unreleased \subseteq Sessions
  BY <1>1, <1>2 DEF marks, TypeOK
<1>5. CASE ~(Conforms(Asked(s), p) /\ ready)
  <2>1. /\ pc' = [pc EXCEPT ![s] = "release"] /\ result' = [result EXCEPT ![s] = "failed"]
        /\ held' = held /\ todo' = todo
    BY <1>2, <1>5 DEF Fails, Goes
  <2>2. "release" \in After /\ "failed" \in Results
    BY DEF After, Results
  <2>3. UNCHANGED <<upload, export>> /\ UNCHANGED <<artifact, built, ran>>
    BY <1>4, <2>1 DEF upload
  <2>4. {late', held', abandoned', unreleased'} \subseteq SUBSET Sessions
    BY <1>4, <2>1
  <2>5. \/ result' = result
        \/ (pc[s] \in Before \/ s \notin Runs) /\ \E v \in Results : result' = [result EXCEPT ![s] = v]
    BY <1>1, <2>1, <2>2
  <2> QED BY <1>3, <1>4, <2>1, <2>2, <2>3, <2>4, <2>5, EndStep
<1>6. CASE Conforms(Asked(s), p) /\ ready
  <2>1. PICK to, T : /\ to = IF s \in Checks THEN "exec" ELSE "upload"
                     /\ T = IF s \in Checks THEN {} ELSE DOMAIN Payload(s)
    OBVIOUS
  <2>2. /\ pc' = [pc EXCEPT ![s] = to] /\ result' = result
        /\ held' = held \cup {s} /\ todo' = [todo EXCEPT ![s] = T]
    BY <1>2, <1>6, <2>1 DEF Goes
  <2>3. s \in Runs => artifact # None
    BY DEF CreateSession, Begins
  <2>4. T \subseteq Names
    <3>1. s \in Checks \/ s = Build \/ s \in Runs
      BY DEF Sessions
    <3> QED BY <1>1, <2>1, <2>3, <3>1, UploadsAreFiles
  <2>5. /\ todo \in [Sessions -> SUBSET Names] /\ sending \in [Sessions -> Names \cup {None}]
        /\ sent \in [Sessions -> Nat] /\ worker'[s].files = <<>> /\ sending[s] = None /\ sent[s] = 0
        /\ ignored \subseteq {"touch", "locate", "read", "candidate"}
    BY <1>1, <1>2 DEF TypeOK, Phases
  <2>6. /\ todo' \in [Sessions -> SUBSET Names] /\ todo'[s] = T
        /\ \A t \in Sessions \ {s} : todo'[t] = todo[t]
    BY <2>2, <2>4, <2>5
  <2>7. Payload(s)' = Payload(s)
    BY <1>4, SamePayload
  <2>8. Transfer(s)' /\ Delivery(s)'
    <3>1. pc'[s] = to
      BY <1>1, <2>2
    <3>2. CASE s \in Checks
      BY <3>2 DEF Transfer, Delivery
    <3>3. CASE s \notin Checks
      BY <1>4, <2>1, <2>5, <2>6, <2>7, <3>1, <3>3 DEF Transfer, Delivery, Landing
    <3> QED BY <3>2, <3>3
  <2>9. /\ to \in PC /\ to \notin {"export", "save"} \cup {"create"} /\ to # "export" /\ to # "create"
        /\ to = "upload" => s \notin Checks
    BY <2>1 DEF PC
  <2>10. {late', held', abandoned', unreleased'} \subseteq SUBSET Sessions
    BY <1>4, <2>2
  <2> QED
    BY QuietStep, <1>1, <1>3, <1>4, <2>2, <2>3, <2>5, <2>6, <2>8, <2>9, <2>10
<1> QED BY <1>5, <1>6

\* A worker is evicted: whatever goes on with its session goes on without it.
LEMMA EvictKeeps ==
  ASSUME FilesInv, NEW s \in Sessions, Evict(s)
  PROVE  FilesInv'
<1>1. /\ TypeOK /\ Phases /\ pc \in [Sessions -> PC] /\ todo \in [Sessions -> SUBSET Names]
      /\ sending \in [Sessions -> Names \cup {None}] /\ sent \in [Sessions -> Nat]
      /\ ignored \subseteq {"touch", "locate", "read", "candidate"}
      /\ late \subseteq Sessions /\ held \subseteq Sessions
      /\ abandoned \subseteq Sessions /\ unreleased \subseteq Sessions
      /\ Transfer(s) /\ Delivery(s) /\ DOMAIN worker = Sessions
  BY DEF FilesInv, TypeOK
<1>2. /\ worker' = [worker EXCEPT ![s] = None] /\ pc' = pc
      /\ UNCHANGED <<version, late, held, todo, sending, sent, artifact, result, built, ran,
                     ignored, abandoned, unreleased>>
      /\ UNCHANGED export
  BY DEF Evict, upload, outcome, marks
<1>3. /\ DOMAIN worker' = Sessions /\ worker'[s] = None
      /\ \A t \in Sessions \ {s} : worker'[t] = worker[t]
  BY <1>1, <1>2
<1>4. Payload(s)' = Payload(s)
  BY <1>2, SamePayload
<1>5. Transfer(s)' /\ Delivery(s)'
  BY <1>1, <1>2, <1>3, <1>4, OthersTransfer
<1>6. PICK to \in PC : to = pc[s]
  BY <1>1
<1>7. /\ to = "upload" => s \notin Checks
      /\ s \in Runs /\ to \in {"upload", "exec"} => artifact # None
      /\ to = "create" => sending[s] = None /\ sent[s] = 0
  BY <1>1, <1>6 DEF Phases
<1>8. {late', held', abandoned', unreleased'} \subseteq SUBSET Sessions
  BY <1>1, <1>2
<1> QED BY QuietStep, <1>1, <1>2, <1>3, <1>5, <1>6, <1>7, <1>8

-----------------------------------------------------------------------------
(* The commands of an upload.                                              *)

\* A command leaves v in the file t of the worker of s, and nothing else.
LEMMA WriteFile ==
  ASSUME Inv, FilesInv, NEW s \in Sessions, worker[s] # None,
         NEW t \in Names, NEW v \in Content, Writes(s, t, v)
  PROVE  /\ DOMAIN worker' = Sessions /\ \A x \in Sessions \ {s} : worker'[x] = worker[x]
         /\ worker'[s].policy \in Policies /\ IsFiles(worker'[s].files)
         /\ DOMAIN worker'[s].files = DOMAIN worker[s].files \cup {t}
         /\ worker'[s].files[t] = v
         /\ \A u \in DOMAIN worker[s].files \ {t} : worker'[s].files[u] = worker[s].files[u]
<1>1. /\ DOMAIN worker = Sessions /\ worker[s].policy \in Policies /\ IsFiles(worker[s].files)
      /\ worker[s] = [f \in {"policy", "files"} |-> worker[s][f]]
  BY DEF FilesInv, TypeOK, Inv, Shapes
<1>2. PICK F : F = Put(worker[s].files, t, v)
  OBVIOUS
<1>3. worker' = [worker EXCEPT ![s] = [worker[s] EXCEPT !.files = F]]
  BY <1>1, <1>2 DEF Writes
<1>4. /\ DOMAIN worker' = Sessions /\ \A x \in Sessions \ {s} : worker'[x] = worker[x]
      /\ worker'[s] = [f \in {"policy", "files"} |-> IF f = "files" THEN F ELSE worker[s][f]]
  BY <1>1, <1>3
<1>5. worker'[s].files = F /\ worker'[s].policy = worker[s].policy
  BY <1>4
<1>6. /\ DOMAIN F = DOMAIN worker[s].files \cup {t} /\ F[t] = v
      /\ \A u \in DOMAIN worker[s].files \ {t} : F[u] = worker[s].files[u]
  BY <1>2 DEF Put
<1>7. IsFiles(F)
  BY <1>1, <1>6 DEF IsFiles
<1> QED BY <1>1, <1>4, <1>5, <1>6, <1>7

\* An owner that uploads, and what it sends.
LEMMA Uploading ==
  ASSUME FilesInv, NEW s \in Sessions, pc[s] = "upload"
  PROVE  /\ s \notin Checks /\ Transfer(s) /\ Delivery(s) /\ TypeOK /\ Phases
         /\ s \in Runs => artifact # None
         /\ \A n \in DOMAIN Payload(s) : n \in Names /\ Target(n) \in Names /\ Payload(s)[n] \in Content
         /\ pc \in [Sessions -> PC] /\ todo \in [Sessions -> SUBSET Names]
         /\ sending \in [Sessions -> Names \cup {None}] /\ sent \in [Sessions -> Nat]
         /\ ignored \subseteq {"touch", "locate", "read", "candidate"}
         /\ {late, held, abandoned, unreleased} \subseteq SUBSET Sessions
         /\ "upload" \in PC /\ "upload" \in Before
<1>1. /\ TypeOK /\ Phases /\ Transfer(s) /\ Delivery(s) /\ s \notin Checks
      /\ s \in Runs => artifact # None
  BY DEF FilesInv, Phases
<1>2. s = Build \/ s \in Runs
  BY <1>1 DEF Sessions
<1>3. \A n \in DOMAIN Payload(s) : n \in Names /\ Target(n) \in Names /\ Payload(s)[n] \in Content
  BY <1>1, <1>2, UploadsAreFiles
<1>4. "upload" \in PC /\ "upload" \in Before
  BY DEF PC, Before
<1> QED BY <1>1, <1>3, <1>4 DEF TypeOK

\* The file in transfer is taken a step further, or to its end.
LEMMA SendStep ==
  ASSUME Inv, FilesInv, NEW s \in Sessions, pc[s] = "upload", worker[s] # None, sending[s] # None,
         NEW v \in Content, Writes(s, Target(sending[s]), v),
         NEW e \in Nat, NEW f, f = sending[s] \/ f = None,
         f = None => e = 0 /\ v = Payload(s)[sending[s]],
         f # None => e # 0 /\ e < Len(Payload(s)[sending[s]]) /\ v = SubSeq(Payload(s)[sending[s]], 1, e),
         sent' = [sent EXCEPT ![s] = e], sending' = [sending EXCEPT ![s] = f],
         UNCHANGED <<version, late, held, pc, todo>>, UNCHANGED export, UNCHANGED outcome, UNCHANGED marks
  PROVE  FilesInv'
<1>1. PICK t, P : t = Target(sending[s]) /\ P = Payload(s)
  OBVIOUS
<1>2. /\ s \notin Checks /\ Transfer(s) /\ Delivery(s)
      /\ s \in Runs => artifact # None
      /\ \A n \in DOMAIN P : n \in Names /\ Target(n) \in Names /\ P[n] \in Content
  BY <1>1, Uploading
<1>3. /\ UNCHANGED <<version, artifact, built, ran, result, ignored, late, held, abandoned, unreleased>>
      /\ Payload(s)' = P
  <2>1. UNCHANGED <<version, artifact, built, ran, result, ignored, late, held, abandoned, unreleased>>
    BY DEF outcome, marks
  <2> QED BY <1>1, <2>1, SamePayload
<1>4. /\ todo[s] \subseteq DOMAIN P /\ sending[s] \in DOMAIN P /\ t \in Names
      /\ \A n \in DOMAIN P \ todo[s] : Target(n) # t /\ Promised(s, Target(n)) => Arrived(s, Target(n))
      /\ DOMAIN worker[s].files \subseteq Landing(s)
  <2>1. todo[s] \subseteq DOMAIN P /\ sending[s] \in DOMAIN P
    BY <1>1, <1>2 DEF Transfer
  <2>2. \A n \in DOMAIN P \ todo[s] : Target(n) # t /\ Promised(s, Target(n)) => Arrived(s, Target(n))
    BY <1>1, <1>2 DEF Delivery
  <2>3. DOMAIN worker[s].files \subseteq Landing(s)
    BY <1>2 DEF Delivery
  <2> QED BY <1>1, <1>2, <2>1, <2>2, <2>3
<1>5. /\ DOMAIN worker' = Sessions /\ \A x \in Sessions \ {s} : worker'[x] = worker[x]
      /\ worker'[s].policy \in Policies /\ IsFiles(worker'[s].files)
      /\ DOMAIN worker'[s].files = DOMAIN worker[s].files \cup {t}
      /\ worker'[s].files[t] = v
      /\ \A u \in DOMAIN worker[s].files \ {t} : worker'[s].files[u] = worker[s].files[u]
  BY <1>1, <1>4, WriteFile
<1>6. /\ sent' \in [Sessions -> Nat] /\ sent'[s] = e
      /\ sending' \in [Sessions -> Names \cup {None}] /\ sending'[s] = f
      /\ \A x \in Sessions \ {s} : todo'[x] = todo[x] /\ sending'[x] = sending[x] /\ sent'[x] = sent[x]
  BY Uploading
<1>7. Transfer(s)'
  BY <1>1, <1>3, <1>4, <1>5, <1>6 DEF Transfer
<1>8. Delivery(s)'
  <2>1. Landing(s)' = Landing(s) /\ t \in Landing(s)
    BY <1>1, <1>3, <1>4 DEF Landing
  <2>2. ASSUME NEW n \in DOMAIN P \ todo[s], f # None => Target(n) # Target(f), Promised(s, Target(n))'
        PROVE  Arrived(s, Target(n))'
    <3>1. CASE Target(n) = t
      <4>1. f = None
        BY <1>1, <2>2, <3>1
      <4>2. v = P[sending[s]] /\ sending[s] \in DOMAIN P /\ Target(sending[s]) = t
        BY <1>1, <1>4, <4>1
      <4> QED BY <1>3, <1>5, <3>1, <4>2 DEF Arrived
    <3>2. CASE Target(n) # t
      <4>1. Promised(s, Target(n))
        BY <1>1, <1>3, <2>2 DEF Promised
      <4>2. Arrived(s, Target(n))
        BY <1>4, <3>2, <4>1
      <4> QED BY <1>1, <1>3, <1>5, <3>2, <4>2 DEF Arrived
    <3> QED BY <3>1, <3>2
  <2> QED BY <1>3, <1>4, <1>5, <1>6, <2>1, <2>2 DEF Delivery
<1>9. /\ ignored' \subseteq {"touch", "locate", "read", "candidate"} /\ todo' \in [Sessions -> SUBSET Names]
      /\ {late', held', abandoned', unreleased'} \subseteq SUBSET Sessions
  BY <1>3, Uploading
<1>10. PICK to \in PC : to = "upload" /\ to = pc[s] /\ to \in Before
  BY Uploading
<1>11. /\ to \notin {"export", "save"} \cup {"create"} /\ to # "export" /\ to # "create"
       /\ pc' = pc /\ ignored' = ignored
  BY <1>3, <1>10
<1> QED BY QuietStep, <1>2, <1>3, <1>5, <1>6, <1>7, <1>8, <1>9, <1>10, <1>11

\* The next file is begun: whatever was at its place is not relied on any more.
LEMMA NextFileKeeps ==
  ASSUME FilesInv, NEW s \in Sessions, NextFile(s)
  PROVE  FilesInv'
<1>1. pc[s] = "upload" /\ sending[s] = None
  BY DEF NextFile
<1>2. PICK n \in todo[s] : todo' = [todo EXCEPT ![s] = todo[s] \ {n}] /\ sending' = [sending EXCEPT ![s] = n]
  BY DEF NextFile
<1>3. /\ UNCHANGED <<version, worker, late, held, pc, sent, artifact, built, ran, result,
                     ignored, abandoned, unreleased>>
      /\ UNCHANGED export
  BY DEF NextFile, gateway, outcome, marks
<1>4. PICK P : P = Payload(s)
  OBVIOUS
<1>5. P' = P /\ Payload(s)' = P
  BY <1>3, <1>4, SamePayload
<1>6. /\ todo[s] \subseteq DOMAIN P /\ sent[s] = 0 /\ n \in DOMAIN P /\ n \in Names /\ n # None
      /\ worker[s] # None => /\ DOMAIN worker[s].files \subseteq Landing(s)
                             /\ \A x \in DOMAIN P \ todo[s] : Promised(s, Target(x)) => Arrived(s, Target(x))
  <2>1. Transfer(s) /\ Delivery(s) /\ s \notin Checks
    BY <1>1, Uploading
  <2>2. todo[s] \subseteq DOMAIN P /\ sent[s] = 0
    BY <1>1, <1>4, <2>1 DEF Transfer
  <2>3. n \in Names /\ n # None
    BY <1>1, NamesAssumption, Uploading
  <2>4. worker[s] # None => /\ DOMAIN worker[s].files \subseteq Landing(s)
                            /\ \A x \in DOMAIN P \ todo[s] : Promised(s, Target(x)) => Arrived(s, Target(x))
    BY <1>1, <1>4, <2>1 DEF Delivery
  <2> QED BY <2>2, <2>3, <2>4
<1>7. /\ todo' \in [Sessions -> SUBSET Names] /\ todo'[s] = todo[s] \ {n}
      /\ sending' \in [Sessions -> Names \cup {None}] /\ sending'[s] = n
      /\ sent' \in [Sessions -> Nat] /\ sent'[s] = 0
      /\ \A x \in Sessions \ {s} : todo'[x] = todo[x] /\ sending'[x] = sending[x] /\ sent'[x] = sent[x]
  BY <1>1, <1>2, <1>3, <1>6, Uploading
<1>8. Transfer(s)'
  BY <1>1, <1>3, <1>5, <1>6, <1>7 DEF Transfer
<1>9. Delivery(s)'
  <2>1. Landing(s)' = Landing(s)
    BY <1>4, <1>5 DEF Landing
  <2>2. ASSUME worker[s] # None, NEW x \in DOMAIN P \ todo'[s], Target(x) # Target(n), Promised(s, Target(x))'
        PROVE  Arrived(s, Target(x))'
    <3>1. x \in DOMAIN P \ todo[s]
      BY <1>7, <2>2
    <3>2. Promised(s, Target(x))
      BY <1>3, <1>4, <1>5, <2>2 DEF Promised
    <3>3. Arrived(s, Target(x))
      BY <1>6, <2>2, <3>1, <3>2
    <3> QED BY <1>3, <1>4, <1>5, <3>3 DEF Arrived
  <2> QED BY <1>3, <1>5, <1>6, <1>7, <2>1, <2>2 DEF Delivery
<1>10. PICK to \in PC : to = "upload" /\ to = pc[s] /\ to \in Before
  BY <1>1, Uploading
<1>11. /\ to \notin {"export", "save"} \cup {"create"} /\ to # "export" /\ to # "create"
       /\ pc' = pc /\ ignored' = ignored /\ ignored \subseteq {"touch", "locate", "read", "candidate"}
       /\ {late', held', abandoned', unreleased'} \subseteq SUBSET Sessions
       /\ s \notin Checks
  BY <1>1, <1>3, <1>10, Uploading
<1>12. s \in Runs => artifact # None
  BY <1>1, Uploading
<1>13. /\ DOMAIN worker' = Sessions /\ \A x \in Sessions \ {s} : worker'[x] = worker[x]
       /\ worker'[s] # None => worker'[s].policy \in Policies /\ IsFiles(worker'[s].files)
  BY <1>3, WorkerTypes DEF FilesInv
<1> QED BY QuietStep, <1>3, <1>7, <1>8, <1>9, <1>10, <1>11, <1>12, <1>13

\* An empty file is made, or is remembered as one that may be missing.
LEMMA TouchKeeps ==
  ASSUME Inv, FilesInv, NEW s \in Sessions, TouchFile(s)
  PROVE  FilesInv'
<1>1. /\ pc[s] = "upload" /\ worker[s] # None /\ sending[s] # None /\ Payload(s)[sending[s]] = <<>>
      /\ sending' = [sending EXCEPT ![s] = None]
      /\ UNCHANGED <<version, late, held, pc, todo, sent, abandoned, unreleased>>
      /\ UNCHANGED export /\ UNCHANGED outcome
      /\ \/ Writes(s, Target(sending[s]), <<>>) /\ ignored' = ignored
         \/ worker' = worker /\ ignored' = ignored \cup {"touch"}
  BY DEF TouchFile
<1>2. PICK P : P = Payload(s)
  OBVIOUS
<1>3. /\ s \notin Checks /\ Transfer(s) /\ Delivery(s)
      /\ s \in Runs => artifact # None
  BY <1>1, Uploading
<1>4. sent[s] = 0 /\ sending[s] \in DOMAIN P /\ todo[s] \subseteq DOMAIN P
  <2>1. sent[s] = 0 \/ sent[s] < Len(<<>>)
    BY <1>1, <1>3 DEF Transfer
  <2>2. sending[s] \in DOMAIN P /\ todo[s] \subseteq DOMAIN P
    BY <1>1, <1>2, <1>3 DEF Transfer
  <2>3. sent[s] \in Nat
    BY <1>1, Uploading
  <2> QED BY <2>1, <2>2, <2>3
<1>5. CASE Writes(s, Target(sending[s]), <<>>) /\ ignored' = ignored
  <2>1. /\ sent' = [sent EXCEPT ![s] = 0] /\ <<>> \in Content /\ 0 \in Nat
        /\ UNCHANGED marks
    <3>1. <<>> \in Content
      BY DEF Content
    <3>2. sent \in [Sessions -> Nat]
      BY <1>1, Uploading
    <3> QED BY <1>1, <1>4, <1>5, <3>1, <3>2 DEF marks
  <2> QED BY <1>1, <1>5, <2>1, SendStep
<1>6. CASE worker' = worker /\ ignored' = ignored \cup {"touch"}
  <2>1. /\ UNCHANGED <<version, artifact, built, ran, result>> /\ Payload(s)' = P
    <3>1. UNCHANGED <<version, artifact, built, ran, result>>
      BY <1>1 DEF outcome
    <3> QED BY <1>2, <3>1, SamePayload
  <2>2. /\ sent' \in [Sessions -> Nat] /\ sent'[s] = 0 /\ todo' = todo
        /\ todo' \in [Sessions -> SUBSET Names]
        /\ sending' \in [Sessions -> Names \cup {None}] /\ sending'[s] = None
        /\ \A x \in Sessions \ {s} : todo'[x] = todo[x] /\ sending'[x] = sending[x] /\ sent'[x] = sent[x]
    BY <1>1, <1>4, Uploading
  <2>3. Transfer(s)'
    BY <1>1, <1>4, <2>1, <2>2 DEF Transfer
  <2>4. Delivery(s)'
    <3>1. Landing(s)' = Landing(s)
      BY <1>2, <2>1 DEF Landing
    <3>2. ASSUME NEW n \in DOMAIN P \ todo[s], Promised(s, Target(n))'
          PROVE  Arrived(s, Target(n))'
      <4>1. "touch" \in ignored'
        BY <1>6
      <4>2. \A m \in DOMAIN P : Target(m) = Target(n) => P[m] # <<>>
        BY <2>1, <3>2, <4>1 DEF Promised
      <4>3. Target(n) # Target(sending[s]) /\ Promised(s, Target(n))
        BY <1>1, <1>2, <1>4, <4>2 DEF Promised
      <4>4. Arrived(s, Target(n))
        BY <1>1, <1>2, <1>3, <4>3 DEF Delivery
      <4> QED BY <1>2, <1>6, <2>1, <4>4 DEF Arrived
    <3>3. DOMAIN worker[s].files \subseteq Landing(s)
      BY <1>1, <1>3 DEF Delivery
    <3> QED BY <1>6, <2>1, <2>2, <3>1, <3>2, <3>3 DEF Delivery
  <2>5. PICK to \in PC : to = "upload" /\ to = pc[s] /\ to \in Before
    BY <1>1, Uploading
  <2>6. /\ to \notin {"export", "save"} \cup {"create"} /\ to # "export" /\ to # "create"
        /\ pc' = pc /\ ignored \subseteq ignored' /\ ignored' \subseteq {"touch", "locate", "read", "candidate"}
        /\ {late', held', abandoned', unreleased'} \subseteq SUBSET Sessions
    BY <1>1, <1>6, <2>5, Uploading
  <2>7. /\ DOMAIN worker' = Sessions /\ \A x \in Sessions \ {s} : worker'[x] = worker[x]
        /\ worker'[s] # None => worker'[s].policy \in Policies /\ IsFiles(worker'[s].files)
    BY <1>6, WorkerTypes DEF FilesInv
  <2> QED BY QuietStep, <1>1, <1>3, <2>1, <2>2, <2>3, <2>4, <2>5, <2>6, <2>7
<1> QED BY <1>1, <1>5, <1>6

\* A chunk is added to what was sent before it.
LEMMA SendKeeps ==
  ASSUME Inv, FilesInv, NEW s \in Sessions, SendChunk(s)
  PROVE  FilesInv'
<1>1. PICK d, e, t, b, v :
        /\ d = Payload(s)[sending[s]] /\ e = Min2(sent[s] + UploadChunk, Len(d))
        /\ t = Target(sending[s])
        /\ b = IF sent[s] = 0 THEN <<>> ELSE worker[s].files[t]
        /\ v = b \o SubSeq(d, sent[s] + 1, e)
  OBVIOUS
<1>2. /\ pc[s] = "upload" /\ worker[s] # None /\ sending[s] # None /\ sent[s] < Len(d)
      /\ Writes(s, t, v)
      /\ sent' = [sent EXCEPT ![s] = IF e = Len(d) THEN 0 ELSE e]
      /\ sending' = [sending EXCEPT ![s] = IF e = Len(d) THEN None ELSE sending[s]]
      /\ UNCHANGED <<version, late, held, pc, todo>> /\ UNCHANGED export /\ UNCHANGED outcome /\ UNCHANGED marks
  BY <1>1 DEF SendChunk
<1>3. /\ Transfer(s) /\ s \notin Checks /\ sent[s] \in Nat
  BY <1>2, Uploading
<1>4. sending[s] \in DOMAIN Payload(s)
  BY <1>2, <1>3 DEF Transfer
<1>5. d \in Content
  BY <1>1, <1>2, <1>4, Uploading
<1>6. Len(d) \in Nat /\ e \in Nat /\ sent[s] < e /\ e <= Len(d) /\ e # 0
  <2>1. UploadChunk \in Nat \ {0} /\ Len(d) \in Nat
    BY <1>5, SandboxAssumption DEF Content
  <2>2. e = IF sent[s] + UploadChunk < Len(d) THEN sent[s] + UploadChunk ELSE Len(d)
    BY <1>1 DEF Min2
  <2> QED BY <1>2, <1>3, <2>1, <2>2
<1>7. b = SubSeq(d, 1, sent[s])
  <2>1. CASE sent[s] = 0
    BY <1>1, <1>5, <2>1 DEF Content
  <2>2. CASE sent[s] # 0
    BY <1>1, <1>2, <1>3, <2>2 DEF Transfer
  <2> QED BY <2>1, <2>2
<1>8. v = SubSeq(d, 1, e) /\ v \in Content /\ (e = Len(d) => v = d)
  <2>1. PICK T, n : T = (Names \cup {Binary}) \X Line /\ n = sent[s]
    OBVIOUS
  <2>2. d \in Seq(T) /\ n \in Nat /\ n < e
    BY <1>3, <1>5, <1>6, <2>1 DEF Content
  <2>3. SubSeq(d, 1, n) \o SubSeq(d, n + 1, e) = SubSeq(d, 1, e)
    BY <1>6, <2>2
  <2>4. SubSeq(d, 1, e) \in Seq(T) /\ (e = Len(d) => SubSeq(d, 1, e) = d)
    BY <1>6, <2>2
  <2> QED BY <1>1, <1>7, <2>1, <2>3, <2>4 DEF Content
<1>9. CASE e = Len(d)
  <2>1. /\ sent' = [sent EXCEPT ![s] = 0] /\ sending' = [sending EXCEPT ![s] = None]
        /\ v = Payload(s)[sending[s]] /\ 0 \in Nat
    BY <1>1, <1>2, <1>8, <1>9
  <2>2. Writes(s, Target(sending[s]), v)
    BY <1>1, <1>2
  <2>3. PICK f : f = None
    OBVIOUS
  <2>4. /\ sending' = [sending EXCEPT ![s] = f] /\ f = None /\ v \in Content
        /\ pc[s] = "upload" /\ worker[s] # None /\ sending[s] # None
    BY <1>2, <1>8, <2>1, <2>3
  <2>5. UNCHANGED <<version, late, held, pc, todo>> /\ UNCHANGED export /\ UNCHANGED outcome /\ UNCHANGED marks
    BY <1>2
  <2> QED BY <2>1, <2>2, <2>4, <2>5, SendStep
<1>10. CASE e # Len(d)
  <2>1. PICK f : f = sending[s]
    OBVIOUS
  <2>2. /\ sent' = [sent EXCEPT ![s] = e] /\ sending' = [sending EXCEPT ![s] = f]
        /\ f # None /\ e < Len(Payload(s)[sending[s]]) /\ v = SubSeq(Payload(s)[sending[s]], 1, e)
    <3>1. e < Len(d)
      BY <1>6, <1>10
    <3> QED BY <1>1, <1>2, <1>8, <1>10, <2>1, <3>1
  <2>3. Writes(s, Target(sending[s]), v)
    BY <1>1, <1>2
  <2>4. /\ e # 0 /\ e \in Nat /\ v \in Content /\ f = sending[s]
        /\ pc[s] = "upload" /\ worker[s] # None /\ sending[s] # None
    BY <1>2, <1>6, <1>8, <2>1
  <2>5. UNCHANGED <<version, late, held, pc, todo>> /\ UNCHANGED export /\ UNCHANGED outcome /\ UNCHANGED marks
    BY <1>2
  <2> QED BY <2>2, <2>3, <2>4, <2>5, SendStep
<1> QED BY <1>9, <1>10

\* All files are there once nothing is left to send.
LEMMA ReturnKeeps ==
  ASSUME FilesInv, NEW s \in Sessions, UploadReturns(s)
  PROVE  FilesInv'
<1>1. /\ pc[s] = "upload" /\ todo[s] = {} /\ sending[s] = None /\ pc' = [pc EXCEPT ![s] = "exec"]
      /\ UNCHANGED <<version, worker, late, held, todo, sending, sent, artifact, built, ran, result,
                     ignored, abandoned, unreleased>>
      /\ UNCHANGED export
  BY DEF UploadReturns, Goes, gateway, upload, outcome, marks
<1>2. /\ s \notin Checks /\ Transfer(s) /\ Delivery(s) /\ sent \in [Sessions -> Nat]
      /\ todo \in [Sessions -> SUBSET Names] /\ sending \in [Sessions -> Names \cup {None}]
      /\ ignored \subseteq {"touch", "locate", "read", "candidate"}
      /\ {late', held', abandoned', unreleased'} \subseteq SUBSET Sessions
      /\ pc'[s] = "exec" /\ pc[s] \in Before
  BY <1>1, Uploading
<1>3. s \in Runs => artifact # None
  BY <1>1, Uploading
<1>4. Payload(s)' = Payload(s)
  BY <1>1, SamePayload
<1>5. Transfer(s)'
  BY <1>1, <1>2, <1>4 DEF Transfer
<1>6. Delivery(s)'
  BY <1>1, <1>2, <1>4 DEF Delivery, Landing, Arrived, Promised
<1>7. /\ DOMAIN worker' = Sessions /\ \A x \in Sessions \ {s} : worker'[x] = worker[x]
      /\ worker'[s] # None => worker'[s].policy \in Policies /\ IsFiles(worker'[s].files)
  BY <1>1, WorkerTypes DEF FilesInv
<1>8. PICK to \in PC : to = "exec" /\ to \notin {"export", "save"} \cup {"create"} /\ to # "export" /\ to # "create"
  BY DEF PC
<1> QED BY QuietStep, <1>1, <1>2, <1>3, <1>5, <1>6, <1>7, <1>8

-----------------------------------------------------------------------------
(* Programs.                                                               *)

\* What Exec answers says how long the program ran, when its answer can come.
LEMMA AnswersAreHonest ==
  ASSUME NEW t \in Nat, NEW d \in 0..MaxSpan, NEW lag \in 1..MaxLag
  PROVE  /\ ExecAnswer(t, d, lag) = "exited" => d <= t
         /\ ExecAnswer(t, d, lag) = "timed_out" => d > Min2(t, MaxTimeout)
         /\ d > t /\ t + MaxLag <= ClientTimeout /\ t <= MaxTimeout => ExecAnswer(t, d, lag) = "timed_out"
<1>1. MaxTimeout \in Nat /\ MaxLag \in Nat /\ ClientTimeout \in Nat /\ MaxSpan \in Nat
  BY SandboxAssumption
<1>2. PICK a : a = Min2(t, MaxTimeout)
  OBVIOUS
<1>3. a \in Nat /\ a <= t /\ (t <= MaxTimeout => a = t)
  BY <1>1, <1>2 DEF Min2
<1>4. PICK stop : stop = Min2(d, a)
  OBVIOUS
<1>5. stop \in Nat /\ stop <= a
  BY <1>1, <1>3, <1>4 DEF Min2
<1>6. ExecAnswer(t, d, lag) = IF stop + lag > ClientTimeout THEN "error"
                              ELSE IF d > a THEN "timed_out" ELSE "exited"
  BY <1>2, <1>4 DEF ExecAnswer
<1> QED BY <1>1, <1>2, <1>3, <1>5, <1>6

\* A run executes the artifact as it was saved, and its outcome is what Exec
\* answers.
LEMMA ExecuteKeeps ==
  ASSUME FilesInv, NEW r \in Sessions, Execute(r)
  PROVE  FilesInv'
<1>1. /\ r \in Runs /\ pc[r] = "exec" /\ worker[r] # None /\ pc' = [pc EXCEPT ![r] = "release"]
      /\ UNCHANGED <<version, worker, late, held, todo, sending, sent, artifact, built,
                     ignored, abandoned, unreleased>>
      /\ UNCHANGED export
  BY DEF Execute, Goes, gateway, upload, marks
<1>2. PICK d \in 0..MaxSpan, lag \in 1..MaxLag, exit \in {0, 1, None} :
        /\ version.entry \notin DOMAIN worker[r].files => exit # 0
        /\ ran' = [ran EXCEPT ![r] =
             [span |-> d, exit |-> exit,
              bytes |-> IF version.entry \in DOMAIN worker[r].files THEN worker[r].files[version.entry] ELSE None]]
        /\ result' = [result EXCEPT ![r] =
             CASE ExecAnswer(version.timeout, d, lag) = "timed_out" -> "timed_out"
               [] ExecAnswer(version.timeout, d, lag) = "exited" /\ exit # 1 -> "succeeded"
               [] OTHER -> "failed"]
  BY DEF Execute
<1>3. /\ TypeOK /\ Phases /\ Export /\ Transfer(r) /\ Delivery(r) /\ version.timeout \in Nat
      /\ DOMAIN ran = Sessions /\ result \in [Sessions -> Results] /\ pc \in [Sessions -> PC]
      /\ todo \in [Sessions -> SUBSET Names] /\ sent \in [Sessions -> Nat]
      /\ sending \in [Sessions -> Names \cup {None}] /\ DOMAIN worker = Sessions
      /\ ignored \subseteq {"touch", "locate", "read", "candidate"}
      /\ late \subseteq Sessions /\ held \subseteq Sessions
      /\ abandoned \subseteq Sessions /\ unreleased \subseteq Sessions
      /\ worker[r].policy \in Policies /\ IsFiles(worker[r].files)
  BY <1>1, SandboxAssumption DEF FilesInv, TypeOK, Phases, Results
<1>4. PICK bytes, answer, out :
        /\ bytes = IF version.entry \in DOMAIN worker[r].files THEN worker[r].files[version.entry] ELSE None
        /\ answer = ExecAnswer(version.timeout, d, lag)
        /\ out = IF answer = "timed_out" THEN "timed_out"
                 ELSE IF answer = "exited" /\ exit # 1 THEN "succeeded" ELSE "failed"
  OBVIOUS
<1>5. /\ DOMAIN ran' = Sessions /\ ran'[r] = [span |-> d, exit |-> exit, bytes |-> bytes]
      /\ result' = [result EXCEPT ![r] = out] /\ out \in Results
      /\ \A t \in Sessions \ {r} : result'[t] = result[t] /\ ran'[t] = ran[t]
      /\ result'[r] = out
  BY <1>2, <1>3, <1>4 DEF Results
<1>6. /\ ran'[r].span = d /\ ran'[r].exit = exit /\ ran'[r].bytes = bytes
      /\ ContentOrNone(bytes) /\ (exit = 0 => bytes # None)
  BY <1>2, <1>3, <1>4, <1>5, NamesAssumption DEF IsFiles, ContentOrNone
<1>7. Executed(r)'
  <2> SUFFICES ASSUME ignored = {}, bytes # None PROVE bytes = built.left[Place]
    BY <1>1, <1>6 DEF Executed, Place
  <2>1. r \notin Checks /\ r # Build /\ artifact # None
    BY <1>1, <1>3, SandboxAssumption DEF Phases
  <2>2. Payload(r) = artifact /\ DOMAIN artifact = {Entrypoint}
    BY <1>3, <2>1 DEF Payload, Phases
  <2>3. version.entry \in DOMAIN worker[r].files /\ bytes = worker[r].files[version.entry]
    BY <1>4
  <2>4. version.entry = Entrypoint
    BY <1>1, <1>3, <2>1, <2>2, <2>3, PathFacts DEF Delivery, Landing
  <2>5. todo[r] = {} /\ sending[r] = None
    BY <1>1, <1>3, <2>1 DEF Transfer
  <2>6. Arrived(r, Entrypoint)
    BY <1>1, <1>3, <2>1, <2>2, <2>5, PathFacts DEF Delivery, Promised
  <2>7. bytes = artifact[Entrypoint]
    BY <2>2, <2>3, <2>4, <2>6 DEF Arrived
  <2> QED BY <1>3, <2>1, <2>7 DEF Export
<1>8. Honest(r)'
  <2>1. /\ answer = "exited" => d <= version.timeout
        /\ answer = "timed_out" => d > Min2(version.timeout, MaxTimeout)
        /\ d > version.timeout /\ version.timeout + MaxLag <= ClientTimeout /\ version.timeout <= MaxTimeout
             => answer = "timed_out"
    BY <1>3, <1>4, AnswersAreHonest
  <2> QED BY <1>1, <1>4, <1>5, <1>6, <2>1 DEF Honest
<1>9. PICK to \in PC : /\ to = "release" /\ to \notin {"export", "save"} \cup {"create"} /\ to \notin Before
                       /\ to # "export" /\ to # "create" /\ to # "upload" /\ to # "exec"
                       /\ to \notin {"upload", "exec"}
  BY DEF PC, Before
<1>10. Transfer(r)' /\ Delivery(r)'
  BY <1>1, <1>3 DEF Transfer, Delivery
<1>11. /\ result' \in [Sessions -> Results]
       /\ {late', held', abandoned', unreleased'} \subseteq SUBSET Sessions
       /\ ContentOrNone(ran'[r].bytes) /\ ran'[r].span \in 0..MaxSpan /\ ran'[r].exit \in {0, 1, None}
  BY <1>1, <1>3, <1>5, <1>6
<1>12. artifact # None
  BY <1>1, <1>3 DEF Phases
<1> QED BY SessionStep, <1>1, <1>3, <1>5, <1>7, <1>8, <1>9, <1>10, <1>11, <1>12

-----------------------------------------------------------------------------
(* The build.                                                              *)

\* A step of a build that has begun: nothing runs yet, and the other sessions
\* are not touched.
LEMMA BuildingStep ==
  ASSUME FilesInv, pc[Build] \in {"exec", "export", "save"}, NEW to \in {"export", "save", "release"},
         pc' = [pc EXCEPT ![Build] = to] \/ (pc' = pc /\ to = pc[Build]),
         UNCHANGED <<version, late, held, todo, sending, sent, ran, abandoned, unreleased>>,
         DOMAIN worker' = Sessions,
         \A t \in Sessions \ {Build} : worker'[t] = worker[t],
         worker'[Build] # None => worker'[Build].policy \in Policies /\ IsFiles(worker'[Build].files),
         cand' \in 1..3, reads' \in Nat, ContentOrNone(buf'), ContentOrNone(exported'),
         to = "save" => exported' \in Content,
         artifact' # None => to = "release" /\ IsFiles(artifact') /\ DOMAIN artifact' = {Entrypoint},
         built' # None => IsFiles(built'.from) /\ IsFiles(built'.left),
         result' = result \/ \E v \in Results : result' = [result EXCEPT ![Build] = v],
         ignored \subseteq ignored', ignored' \subseteq {"touch", "locate", "read", "candidate"},
         Export', BuildSeesSource'
  PROVE  FilesInv'
<1>1. /\ TypeOK /\ Phases /\ \A t \in Sessions : Transfer(t) /\ Delivery(t)
      /\ pc \in [Sessions -> PC] /\ to \in PC /\ Build \in Sessions /\ Runs \subseteq Sessions
      /\ result \in [Sessions -> Results]
  BY DEF FilesInv, TypeOK, PC, Sessions, Results
<1>2. /\ pc' \in [Sessions -> PC] /\ pc'[Build] = to
      /\ \A t \in Sessions \ {Build} : pc'[t] = pc[t]
  <2>1. CASE pc' = [pc EXCEPT ![Build] = to]
    BY <1>1, <2>1
  <2>2. CASE pc' = pc /\ to = pc[Build]
    BY <1>1, <2>2
  <2> QED BY <2>1, <2>2
<1>3. /\ artifact = None
      /\ \A r \in Runs : ran[r] = None /\ pc[r] \notin {"upload", "exec"}
  BY <1>1 DEF Phases
<1>4. result' \in [Sessions -> Results]
  BY <1>1
<1>5. TypeOK'
  BY <1>1, <1>2, <1>4, PathFacts DEF TypeOK, Results
<1>6. Phases'
  <2>1. /\ pc'[Build] \notin {"release", "done"} => artifact' = None
        /\ pc'[Build] \notin {"create", "upload", "exec"}
        /\ pc'[Build] = "save" => exported' \in Content
        /\ artifact' # None => DOMAIN artifact' = {Entrypoint}
    BY <1>2
  <2>2. ASSUME NEW t \in Sessions
        PROVE  /\ pc'[t] \in {"export", "save"} => t = Build
               /\ pc'[t] = "upload" => t \notin Checks
               /\ pc'[t] \in {"create", "upload", "exec"} => ran'[t] = None
               /\ pc'[t] = "create" => sending'[t] = None /\ sent'[t] = 0
               /\ t \in Runs /\ (pc'[t] \in {"upload", "exec"} \/ ran'[t] # None) => artifact' # None
    <3>1. CASE t = Build
      BY <1>2, <3>1, SandboxAssumption
    <3>2. CASE t # Build
      BY <1>1, <1>2, <1>3, <3>2 DEF Phases
    <3> QED BY <3>1, <3>2
  <2> QED BY <1>1, <2>1, <2>2 DEF Phases
<1>7. ASSUME NEW t \in Sessions PROVE Transfer(t)' /\ Delivery(t)'
  <2>1. CASE t = Build \/ t \in Checks \/ t \in Runs
    BY <1>2, <1>3, <2>1 DEF Transfer, Delivery
  <2> QED BY <2>1 DEF Sessions
<1>8. \A r \in Runs : Executed(r)' /\ Honest(r)'
  BY <1>3 DEF Executed, Honest
<1> QED BY <1>5, <1>6, <1>7, <1>8 DEF FilesInv

\* The build command sees all that was uploaded, when each file has a place of
\* its own and no touch failed unnoticed.
LEMMA BuildSeesUpload ==
  ASSUME FilesInv, pc[Build] = "exec", worker[Build] # None, "touch" \notin ignored,
         \A n \in DOMAIN version.source : Target(n) = n
  PROVE  \A n \in DOMAIN Payload(Build) :
           n \in DOMAIN worker[Build].files /\ worker[Build].files[n] = Payload(Build)[n]
<1>1. /\ Transfer(Build) /\ Delivery(Build) /\ Build \notin Checks /\ version \in Versions
  BY SandboxAssumption DEF FilesInv, TypeOK, Sessions
<1>2. \A n \in DOMAIN Payload(Build) : Target(n) = n
  <2>1. DOMAIN Payload(Build) = DOMAIN version.source \cup SdkFiles \cup {GoMod}
    BY <1>1, BuildUploads
  <2> QED BY <2>1, PathFacts
<1>3. todo[Build] = {} /\ sending[Build] = None
  BY <1>1 DEF Transfer
<1>4. \A n \in DOMAIN Payload(Build) : Arrived(Build, Target(n))
  BY <1>1, <1>3 DEF Delivery, Promised
<1> QED BY <1>2, <1>4 DEF Arrived

\* What the build command leaves are files.
LEMMA OutputsAreFiles ==
  ASSUME NEW files, IsFiles(files), NEW after \in Outputs(files)
  PROVE  IsFiles(after)
<1>1. CASE after = files
  BY <1>1
<1>2. ASSUME NEW place \in {Canonical, Entrypoint}, NEW k \in 0..MaxBinary,
             after = Put(files, place, Cells(Binary, k))
      PROVE  IsFiles(after)
  <2>1. place \in Names /\ k \in Nat
    BY GivenNames, SandboxAssumption
  <2>2. Cells(Binary, k) \in Content
    BY <2>1, CellsAreContent
  <2> QED BY <1>2, <2>1, <2>2 DEF Put, IsFiles
<1> QED BY <1>1, <1>2 DEF Outputs

\* The build command has seen the source, and what it left is to be exported.
LEMMA CompileKeeps ==
  ASSUME Inv, FilesInv, Compile
  PROVE  FilesInv'
<1>1. PICK after \in Outputs(worker[Build].files) :
        /\ worker' = [worker EXCEPT ![Build].files = after]
        /\ built' = [from |-> worker[Build].files, left |-> after]
  BY DEF Compile
<1>2. /\ pc[Build] = "exec" /\ worker[Build] # None /\ pc' = [pc EXCEPT ![Build] = "export"]
      /\ UNCHANGED <<version, late, held, todo, sending, sent, ran, ignored, abandoned, unreleased,
                     artifact, result, cand, reads, buf, exported>>
  BY DEF Compile, Goes, upload, export, marks
<1>3. /\ Build \in Sessions /\ DOMAIN worker = Sessions /\ TypeOK /\ Phases
      /\ worker[Build].policy \in Policies /\ IsFiles(worker[Build].files)
      /\ worker[Build] = [f \in {"policy", "files"} |-> worker[Build][f]]
      /\ pc \in [Sessions -> PC] /\ version \in Versions
      /\ ignored \subseteq {"touch", "locate", "read", "candidate"}
      /\ ContentOrNone(exported)
  BY <1>2 DEF FilesInv, TypeOK, Inv, Shapes, Sessions
<1>4. worker' = [worker EXCEPT ![Build] = [worker[Build] EXCEPT !.files = after]]
  BY <1>1, <1>3
<1>5. /\ DOMAIN worker' = Sessions /\ \A x \in Sessions \ {Build} : worker'[x] = worker[x]
      /\ worker'[Build] = [f \in {"policy", "files"} |-> IF f = "files" THEN after ELSE worker[Build][f]]
  BY <1>3, <1>4
<1>6. /\ worker'[Build].files = after /\ worker'[Build].policy \in Policies /\ IsFiles(after)
      /\ built'.from = worker[Build].files /\ built'.left = after
  BY <1>1, <1>3, <1>5, OutputsAreFiles
<1>7. pc'[Build] = "export" /\ cand = 1 /\ reads = 0 /\ buf = None /\ artifact = None
  BY <1>2, <1>3 DEF Phases
<1>8. Export'
  BY <1>2, <1>6, <1>7 DEF Export
<1>9. BuildSeesSource'
  <2> SUFFICES ASSUME \A n \in DOMAIN version.source : Target(n) = n, "touch" \notin ignored
               PROVE  LET f == worker[Build].files
                      IN  /\ \A n \in DOMAIN version.source \ {GoMod} :
                               n \in DOMAIN f /\ f[n] = Cells(n, version.source[n])
                          /\ SdkFiles \cup {GoMod} \subseteq DOMAIN f
                          /\ f[GoMod] = Text(GoModFor(version.gomod))
                          /\ f[GoMod][Len(f[GoMod])] = <<GoMod, Directive>>
    BY <1>2, <1>6 DEF BuildSeesSource
  <2>1. \A n \in DOMAIN Payload(Build) :
           n \in DOMAIN worker[Build].files /\ worker[Build].files[n] = Payload(Build)[n]
    BY <1>2, BuildSeesUpload
  <2>2. PICK P : P = Payload(Build)
    OBVIOUS
  <2>3. /\ DOMAIN P = DOMAIN version.source \cup SdkFiles \cup {GoMod}
        /\ \A n \in DOMAIN version.source \ {GoMod} : P[n] = Cells(n, version.source[n])
        /\ P[GoMod] = Text(GoModFor(version.gomod))
        /\ P[GoMod][Len(P[GoMod])] = <<GoMod, Directive>>
    BY <1>3, <2>2, BuildUploads
  <2>4. worker[Build].files[GoMod] = P[GoMod]
    BY <2>1, <2>2, <2>3
  <2> QED BY <2>1, <2>2, <2>3, <2>4
<1>10. PICK to \in {"export", "save", "release"} : to = "export"
  OBVIOUS
<1>11. /\ cand' \in 1..3 /\ reads' \in Nat /\ ContentOrNone(buf') /\ ContentOrNone(exported')
       /\ artifact' = None /\ to # "save" /\ pc' = [pc EXCEPT ![Build] = to]
       /\ worker'[Build] # None => worker'[Build].policy \in Policies /\ IsFiles(worker'[Build].files)
       /\ built' # None => IsFiles(built'.from) /\ IsFiles(built'.left)
       /\ result' = result /\ ignored' = ignored
  BY <1>2, <1>3, <1>6, <1>7, <1>10 DEF ContentOrNone
<1>12. /\ ignored \subseteq ignored' /\ ignored' \subseteq {"touch", "locate", "read", "candidate"}
       /\ pc[Build] \in {"exec", "export", "save"}
  BY <1>2, <1>3
<1> QED BY BuildingStep, <1>2, <1>5, <1>8, <1>9, <1>11, <1>12

\* What a build has while it exports or saves.
LEMMA Building ==
  ASSUME FilesInv, pc[Build] \in {"exec", "export", "save"}
  PROVE  /\ Build \in Sessions /\ Build \notin Runs /\ TypeOK /\ Phases /\ Export /\ BuildSeesSource
         /\ pc \in [Sessions -> PC] /\ cand \in 1..3 /\ reads \in Nat /\ artifact = None
         /\ ContentOrNone(buf) /\ ContentOrNone(exported)
         /\ result \in [Sessions -> Results] /\ "failed" \in Results
         /\ {late, held, abandoned, unreleased} \subseteq SUBSET Sessions
         /\ ignored \subseteq {"touch", "locate", "read", "candidate"}
         /\ DOMAIN worker = Sessions
         /\ worker[Build] # None => worker[Build].policy \in Policies /\ IsFiles(worker[Build].files)
         /\ built # None => IsFiles(built.from) /\ IsFiles(built.left)
         /\ Path = IF cand = 3 THEN Entrypoint ELSE Canonical
<1>1. /\ TypeOK /\ Phases /\ Export /\ BuildSeesSource /\ Build \in Sessions /\ Build \notin Runs
      /\ cand \in 1..3 /\ artifact = None
  BY SandboxAssumption, PathFacts DEF FilesInv, TypeOK, Phases, Sessions
<1> QED BY <1>1, PathIsPlace DEF TypeOK, Results

\* A build that fails before or after its export.
LEMMA BuildEnds ==
  ASSUME FilesInv, CompileFails \/ SaveFails
  PROVE  FilesInv'
<1>1. /\ pc[Build] \in {"exec", "export", "save"} /\ pc' = [pc EXCEPT ![Build] = "release"]
      /\ UNCHANGED <<version, worker, late, held, abandoned, unreleased, ignored>>
      /\ UNCHANGED <<upload, export>> /\ UNCHANGED <<artifact, built, ran>>
      /\ \E v \in Results : result' = [result EXCEPT ![Build] = v]
  BY DEF CompileFails, SaveFails, Fails, Goes, gateway, marks, Results
<1>2. /\ Build \in Sessions /\ Build \notin Runs /\ TypeOK
      /\ {late', held', abandoned', unreleased'} \subseteq SUBSET Sessions
  BY <1>1, Building
<1>3. "release" \in After
  BY DEF After
<1>4. /\ DOMAIN worker' = Sessions /\ \A t \in Sessions \ {Build} : worker'[t] = worker[t]
      /\ worker'[Build] # None => worker'[Build].policy \in Policies /\ IsFiles(worker'[Build].files)
  BY <1>1, <1>2, WorkerTypes
<1> QED BY EndStep, <1>1, <1>2, <1>3, <1>4

\* A step of an export.
LEMMA ExportStep ==
  ASSUME FilesInv, pc[Build] = "export", NEW to \in {"export", "save", "release"},
         pc' = [pc EXCEPT ![Build] = to] \/ (pc' = pc /\ to = "export"),
         UNCHANGED <<version, worker, late, held, upload, artifact, built, ran, abandoned, unreleased>>,
         cand' \in 1..3, reads' \in Nat, ContentOrNone(buf'), ContentOrNone(exported'),
         to = "save" => exported' \in Content,
         result' = result \/ result' = [result EXCEPT ![Build] = "failed"],
         ignored \subseteq ignored', ignored' \subseteq {"touch", "locate", "read", "candidate"},
         to = "export" =>
           /\ worker[Build] # None /\ buf' # None =>
                /\ Path' \in DOMAIN built.left
                /\ reads' * ExportChunk <= Len(built.left[Path'])
                /\ buf' = SubSeq(built.left[Path'], 1, reads' * ExportChunk)
           /\ buf' = None => reads' = 0,
         to # "release" /\ ignored' = {} /\ cand' = 3 => Canonical \notin DOMAIN built.left,
         to = "save" /\ ignored' = {} => Path' \in DOMAIN built.left /\ exported' = built.left[Path']
  PROVE  FilesInv'
<1>1. /\ pc \in [Sessions -> PC] /\ Build \in Sessions /\ artifact = None /\ Export /\ BuildSeesSource
      /\ "failed" \in Results
      /\ built # None => IsFiles(built.from) /\ IsFiles(built.left)
      /\ DOMAIN worker = Sessions
      /\ worker[Build] # None => worker[Build].policy \in Policies /\ IsFiles(worker[Build].files)
  BY Building
<1>2. pc'[Build] = to
  BY <1>1
<1>3. UNCHANGED <<version, worker, late, held, todo, sending, sent, artifact, built, ran, abandoned, unreleased>>
  BY DEF upload
<1>4. Export'
  BY <1>1, <1>2, <1>3 DEF Export
<1>5. BuildSeesSource'
  BY <1>1, <1>3 DEF BuildSeesSource
<1>6. /\ result' = result \/ \E v \in Results : result' = [result EXCEPT ![Build] = v]
      /\ pc[Build] \in {"exec", "export", "save"}
      /\ pc' = [pc EXCEPT ![Build] = to] \/ (pc' = pc /\ to = pc[Build])
  BY <1>1
<1> QED BY BuildingStep, <1>1, <1>3, <1>4, <1>5, <1>6

\* A candidate that is passed over without a failure was not there.
LEMMA NextCandidateKeeps ==
  ASSUME FilesInv, pc[Build] = "export", NextCandidate,
         UNCHANGED <<version, worker, late, held, upload, exported, artifact, built, ran, abandoned, unreleased>>,
         ignored \subseteq ignored', ignored' \subseteq {"touch", "locate", "read", "candidate"},
         ignored' = {} => Path \notin DOMAIN built.left
  PROVE  FilesInv'
<1>1. /\ cand \in 1..3 /\ ContentOrNone(exported) /\ Path = IF cand = 3 THEN Entrypoint ELSE Canonical
  BY Building
<1>2. PICK to \in {"export", "release"} :
        /\ to = IF cand < 3 THEN "export" ELSE "release"
        /\ pc' = [pc EXCEPT ![Build] = to] \/ (pc' = pc /\ to = "export")
        /\ cand' = IF cand < 3 THEN cand + 1 ELSE cand
        /\ result' = result \/ result' = [result EXCEPT ![Build] = "failed"]
        /\ buf' = None /\ reads' = 0
  BY PathFacts DEF NextCandidate, Fails, Goes
<1>3. /\ cand' \in 1..3 /\ reads' \in Nat /\ ContentOrNone(buf') /\ ContentOrNone(exported')
      /\ to \in {"export", "save", "release"} /\ to # "save"
  BY <1>1, <1>2 DEF ContentOrNone
<1>4. to # "release" /\ ignored' = {} /\ cand' = 3 => Canonical \notin DOMAIN built.left
  BY <1>1, <1>2
<1> QED BY ExportStep, <1>2, <1>3, <1>4

\* A path that is located starts an empty buffer; else the next one is tried.
LEMMA LocateKeeps ==
  ASSUME FilesInv, Locate \/ ExportFails
  PROVE  FilesInv'
<1>1. /\ pc[Build] = "export" /\ ignored \subseteq {"touch", "locate", "read", "candidate"}
      /\ UNCHANGED <<version, worker, late, held, upload, exported, artifact, built, ran, abandoned, unreleased>>
      /\ TypeOK /\ Export /\ cand \in 1..3 /\ reads \in Nat /\ ContentOrNone(exported)
      /\ built # None => IsFiles(built.from) /\ IsFiles(built.left)
      /\ worker[Build] # None => IsFiles(worker[Build].files)
  BY Building DEF Locate, Exporting, ExportFails, gateway
<1>2. CASE ExportFails
  <2>1. NextCandidate /\ ignored' = ignored \cup {"candidate"}
    BY <1>2 DEF ExportFails
  <2> QED BY <1>1, <2>1, NextCandidateKeeps
<1>3. CASE Locate
  <2>1. /\ worker[Build] # None /\ buf = None /\ reads = 0 /\ worker[Build].files = built.left
        /\ IsFiles(built.left)
    BY <1>1, <1>3 DEF Locate, Exporting, Export
  <2>2. ASSUME NextCandidate,
               ignored' = IF Path \in DOMAIN worker[Build].files THEN ignored \cup {"locate"} ELSE ignored
        PROVE  FilesInv'
    BY <1>1, <2>1, <2>2, NextCandidateKeeps
  <2>3. ASSUME Path \in DOMAIN worker[Build].files, buf' = <<>>,
               UNCHANGED <<cand, reads, pc, result, ignored>>
        PROVE  FilesInv'
    <3>1. /\ Path' = Path /\ Path \in DOMAIN built.left /\ built.left[Path] \in Content
          /\ <<>> \in Content
      BY <2>1, <2>3 DEF Path, Candidates, IsFiles, Content
    <3>2. reads' * ExportChunk = 0 /\ 0 <= Len(built.left[Path])
      BY <2>1, <2>3, <3>1, SandboxAssumption DEF Content
    <3>3. buf' = SubSeq(built.left[Path'], 1, reads' * ExportChunk)
      <4>1. SubSeq(built.left[Path], 1, 0) = <<>>
        BY <3>1 DEF Content
      <4> QED BY <2>3, <3>1, <3>2, <4>1
    <3>4. /\ ignored' = {} /\ cand' = 3 => Canonical \notin DOMAIN built.left
      BY <1>1, <2>3 DEF Export
    <3>5. PICK to \in {"export", "save", "release"} : to = "export"
      OBVIOUS
    <3>6. /\ cand' \in 1..3 /\ reads' \in Nat /\ ContentOrNone(buf') /\ ContentOrNone(exported')
          /\ to # "save" /\ pc' = pc /\ result' = result /\ reads' = 0
          /\ ignored \subseteq ignored' /\ ignored' \subseteq {"touch", "locate", "read", "candidate"}
      BY <1>1, <2>1, <2>3, <3>1, <3>5 DEF ContentOrNone
    <3> QED BY ExportStep, <1>1, <3>1, <3>2, <3>3, <3>4, <3>5, <3>6
  <2> QED BY <1>3, <2>2, <2>3 DEF Locate
<1> QED BY <1>2, <1>3, Building DEF Locate, ExportFails

\* What Takes does, by what it is given.
LEMMA TakesCases ==
  ASSUME NEW chunk, Len(chunk) \in Nat, Len(buf) \in Nat, Takes(chunk)
  PROVE  \/ /\ pc' = [pc EXCEPT ![Build] = "release"] /\ result' = [result EXCEPT ![Build] = "failed"]
            /\ UNCHANGED <<reads, buf, exported>>
         \/ /\ chunk = <<>> \/ Len(chunk) < ExportChunk
            /\ exported' = (IF chunk = <<>> THEN buf ELSE buf \o chunk)
            /\ pc' = [pc EXCEPT ![Build] = "save"] /\ UNCHANGED <<reads, buf, result>>
         \/ /\ ~(Len(chunk) < ExportChunk)
            /\ buf' = buf \o chunk /\ reads' = reads + 1 /\ UNCHANGED <<pc, exported, result>>
<1>0. MaxArtifact \in Nat /\ ExportChunk \in Nat
  BY SandboxAssumption
<1>1. CASE chunk = <<>>
  BY <1>1 DEF Takes, Exported, Goes
<1>2. CASE chunk # <<>> /\ Len(buf) + Len(chunk) > MaxArtifact
  <2>1. ~(Len(buf) + Len(chunk) <= MaxArtifact)
    BY <1>0, <1>2
  <2> QED BY <1>2, <2>1 DEF Takes, Fails, Goes
<1>3. CASE chunk # <<>> /\ Len(buf) + Len(chunk) <= MaxArtifact /\ Len(chunk) < ExportChunk
  BY <1>0, <1>3 DEF Takes, Exported, Goes
<1>4. CASE chunk # <<>> /\ Len(buf) + Len(chunk) <= MaxArtifact /\ ~(Len(chunk) < ExportChunk)
  BY <1>0, <1>4 DEF Takes
<1> QED BY <1>0, <1>1, <1>2, <1>3, <1>4

\* The cells before a chunk, and before the next one.
LEMMA CellsBefore ==
  ASSUME NEW i \in Nat
  PROVE  /\ i * ExportChunk \in Nat /\ (i + 1) * ExportChunk \in Nat
         /\ (i + 1) * ExportChunk = i * ExportChunk + ExportChunk
         /\ ExportChunk \in Nat \ {0}
<1>1. PICK e \in Nat \ {0} : e = ExportChunk
  BY SandboxAssumption
<1>2. i * e \in Nat /\ (i + 1) * e \in Nat /\ (i + 1) * e = i * e + e
  OBVIOUS
<1> QED BY <1>1, <1>2

\* The first k elements of a part of F, and what precedes them.
LEMMA PartOfPart ==
  ASSUME NEW T, NEW F \in Seq(T), NEW n \in Nat, NEW m \in Nat, n <= m, m <= Len(F), NEW k \in 0..(m - n)
  PROVE  /\ Len(SubSeq(F, n + 1, m)) = m - n
         /\ SubSeq(SubSeq(F, n + 1, m), 1, k) = SubSeq(F, n + 1, n + k)
         /\ Len(SubSeq(F, n + 1, n + k)) = k
         /\ SubSeq(F, 1, n) \o SubSeq(F, n + 1, n + k) = SubSeq(F, 1, n + k)
<1>1. Len(F) \in Nat /\ n <= Len(F) /\ m - n \in Nat
  OBVIOUS
<1>2. Len(SubSeq(F, n + 1, m)) = m - n
  BY <1>1
<1>3. SubSeq(SubSeq(F, n + 1, m), 1, k) = SubSeq(F, n + 1, n + k)
  BY <1>1
<1>4. /\ Len(SubSeq(F, n + 1, n + k)) = k
      /\ SubSeq(F, 1, n) \o SubSeq(F, n + 1, n + k) = SubSeq(F, 1, n + k)
  BY <1>1
<1> QED BY <1>2, <1>3, <1>4

\* How many cells an export has read, and what it reads next.
CellsRead == reads * ExportChunk
NextChunk == Chunk(worker[Build].files[Path], reads, ExportChunk)

\* The next chunk follows what was read, and is short only at the end of the file;
\* so what a command reads of it, k cells, extends the buffer.
LEMMA PartRead ==
  ASSUME FilesInv, Exporting, buf # None, NEW k \in 0..Len(NextChunk), NEW F, F = built.left[Path]
  PROVE  /\ worker[Build].files = built.left /\ Path \in DOMAIN built.left /\ F \in Content
         /\ ignored = {} /\ cand = 3 => Canonical \notin DOMAIN built.left
         /\ CellsRead \in Nat /\ k \in Nat /\ ExportChunk \in Nat
         /\ buf = SubSeq(F, 1, CellsRead) /\ buf \in Content /\ Len(buf) \in Nat
         /\ Len(SubSeq(NextChunk, 1, k)) = k
         /\ CellsRead + k <= Len(F)
         /\ buf \o SubSeq(NextChunk, 1, k) = SubSeq(F, 1, CellsRead + k)
         /\ SubSeq(F, 1, CellsRead + k) \in Content
         /\ k <= ExportChunk
         /\ k = Len(NextChunk) /\ k < ExportChunk => SubSeq(F, 1, CellsRead + k) = F
<1>1. /\ pc[Build] = "export" /\ worker[Build] # None /\ Export /\ reads \in Nat
      /\ worker[Build].files = built.left /\ IsFiles(built.left)
  BY Building DEF Exporting, Export
<1>2. /\ Path \in DOMAIN built.left /\ CellsRead <= Len(F) /\ buf = SubSeq(F, 1, CellsRead) /\ F \in Content
      /\ ignored = {} /\ cand = 3 => Canonical \notin DOMAIN built.left
  BY <1>1 DEF Export, IsFiles, CellsRead
<1>3. PICK T : T = (Names \cup {Binary}) \X Line
  OBVIOUS
<1>4. Content = Seq(T) /\ F \in Seq(T)
  BY <1>2, <1>3 DEF Content
<1>5. /\ CellsRead \in Nat /\ ExportChunk \in Nat \ {0}
      /\ reads * ExportChunk = CellsRead /\ (reads + 1) * ExportChunk = CellsRead + ExportChunk
  BY <1>1, CellsBefore DEF CellsRead
<1>6. PICK G \in Seq(T), n \in Nat, e \in Nat \ {0} : G = F /\ n = CellsRead /\ e = ExportChunk
  BY <1>4, <1>5
<1>7. /\ k \in Nat /\ Len(SubSeq(NextChunk, 1, k)) = k
      /\ n + k <= Len(G)
      /\ SubSeq(G, 1, n) \o SubSeq(NextChunk, 1, k) = SubSeq(G, 1, n + k)
      /\ k <= e
      /\ k = Len(NextChunk) /\ k < e => SubSeq(G, 1, n + k) = G
  <2>1. Len(G) \in Nat /\ n <= Len(G)
    BY <1>2, <1>6
  <2>2. PICK m \in Nat : m = Min2(n + e, Len(G))
    BY <2>1 DEF Min2
  <2>3. n <= m /\ m <= Len(G) /\ m <= n + e /\ (m = Len(G) \/ m = n + e)
    BY <2>1, <2>2 DEF Min2
  <2>4. NextChunk = SubSeq(G, n + 1, m)
    BY <1>1, <1>5, <1>6, <2>2 DEF NextChunk, Chunk
  <2>5. Len(NextChunk) = m - n
    BY <2>3, <2>4, PartOfPart
  <2>6. PICK j \in 0..(m - n) : j = k
    BY <2>5
  <2>7. /\ SubSeq(SubSeq(G, n + 1, m), 1, j) = SubSeq(G, n + 1, n + j)
        /\ Len(SubSeq(G, n + 1, n + j)) = j
        /\ SubSeq(G, 1, n) \o SubSeq(G, n + 1, n + j) = SubSeq(G, 1, n + j)
    BY <2>3, PartOfPart
  <2>8. j \in Nat /\ n + j <= Len(G) /\ j <= e /\ (j = m - n /\ j < e => n + j = Len(G))
    BY <2>1, <2>3
  <2>9. SubSeq(G, 1, Len(G)) = G
    OBVIOUS
  <2> QED BY <2>4, <2>5, <2>6, <2>7, <2>8, <2>9
<1>8. /\ SubSeq(F, 1, CellsRead) \in Seq(T) /\ Len(SubSeq(F, 1, CellsRead)) = CellsRead
      /\ SubSeq(F, 1, CellsRead + k) \in Seq(T)
  <2>1. PICK j \in Nat : j = k
    BY <1>7
  <2>2. n <= Len(G) /\ n + j <= Len(G)
    BY <1>2, <1>6, <1>7, <2>1
  <2>3. SubSeq(G, 1, n) \in Seq(T) /\ Len(SubSeq(G, 1, n)) = n /\ SubSeq(G, 1, n + j) \in Seq(T)
    BY <2>2
  <2> QED BY <1>6, <2>1, <2>3
<1> QED BY <1>1, <1>2, <1>4, <1>5, <1>6, <1>7, <1>8

\* ExportFiles takes what a command read, k cells of the next chunk; that it is
\* less than the whole chunk was ignored.
LEMMA TakesKeeps ==
  ASSUME FilesInv, Exporting, buf # None,
         NEW k \in 0..Len(NextChunk), Takes(SubSeq(NextChunk, 1, k)),
         k = Len(NextChunk) \/ ignored' # {},
         UNCHANGED <<version, worker, late, held, upload, cand, artifact, built, ran, abandoned, unreleased>>,
         ignored \subseteq ignored', ignored' \subseteq {"touch", "locate", "read", "candidate"}
  PROVE  FilesInv'
<1>1. PICK F, n, chunk : F = built.left[Path] /\ n = CellsRead /\ chunk = SubSeq(NextChunk, 1, k)
  OBVIOUS
<1>2. /\ pc[Build] = "export" /\ worker[Build] # None /\ cand \in 1..3 /\ reads \in Nat
      /\ ContentOrNone(exported) /\ ContentOrNone(buf) /\ pc \in [Sessions -> PC]
  BY Building DEF Exporting
<1>3. /\ Path \in DOMAIN built.left /\ F \in Content
      /\ ignored = {} /\ cand = 3 => Canonical \notin DOMAIN built.left
  BY <1>1, PartRead
<1>4. /\ n \in Nat /\ k \in Nat /\ ExportChunk \in Nat
      /\ buf = SubSeq(F, 1, n) /\ buf \in Content /\ Len(buf) \in Nat
      /\ Len(chunk) = k
      /\ n + k <= Len(F) /\ buf \o chunk = SubSeq(F, 1, n + k)
      /\ SubSeq(F, 1, n + k) \in Content
      /\ k <= ExportChunk
      /\ k = Len(NextChunk) /\ k < ExportChunk => SubSeq(F, 1, n + k) = F
  BY <1>1, PartRead
<1>5. chunk = <<>> => k = 0
  BY <1>4
<1>6. Takes(chunk)
  BY <1>1
<1>7. Path' = Path /\ cand' \in 1..3
  BY <1>2 DEF Path, Candidates
<1>8. CASE pc' = [pc EXCEPT ![Build] = "release"] /\ result' = [result EXCEPT ![Build] = "failed"]
            /\ UNCHANGED <<reads, buf, exported>>
  <2>1. PICK to \in {"export", "save", "release"} : to = "release"
    OBVIOUS
  <2>2. /\ reads' \in Nat /\ ContentOrNone(buf') /\ ContentOrNone(exported')
        /\ to # "save" /\ to # "export" /\ pc' = [pc EXCEPT ![Build] = to]
    BY <1>2, <1>8, <2>1 DEF ContentOrNone
  <2> QED BY ExportStep, <1>2, <1>7, <1>8, <2>1, <2>2
<1>9. CASE /\ chunk = <<>> \/ Len(chunk) < ExportChunk
           /\ exported' = (IF chunk = <<>> THEN buf ELSE buf \o chunk)
           /\ pc' = [pc EXCEPT ![Build] = "save"] /\ UNCHANGED <<reads, buf, result>>
  <2>1. PICK to \in {"export", "save", "release"} : to = "save"
    OBVIOUS
  <2>2. k < ExportChunk /\ exported' = SubSeq(F, 1, n + k)
    <3>1. ExportChunk # 0
      BY SandboxAssumption
    <3>2. CASE chunk = <<>>
      BY <1>4, <1>5, <1>9, <3>1, <3>2
    <3>3. CASE chunk # <<>>
      BY <1>4, <1>9, <3>3
    <3> QED BY <3>2, <3>3
  <2>3. exported' \in Content /\ (ignored' = {} => exported' = F)
    BY <1>4, <2>2
  <2>4. /\ reads' \in Nat /\ ContentOrNone(buf') /\ ContentOrNone(exported')
        /\ to # "export" /\ pc' = [pc EXCEPT ![Build] = to] /\ result' = result
    BY <1>2, <1>9, <2>1, <2>3 DEF ContentOrNone
  <2>5. /\ ignored' = {} /\ cand' = 3 => Canonical \notin DOMAIN built.left
    BY <1>3
  <2>6. to = "save" /\ ignored' = {} => Path' \in DOMAIN built.left /\ exported' = built.left[Path']
    BY <1>1, <1>3, <1>7, <2>3
  <2> QED BY ExportStep, <1>2, <1>7, <2>1, <2>3, <2>4, <2>5, <2>6
<1>10. CASE /\ ~(Len(chunk) < ExportChunk)
            /\ buf' = buf \o chunk /\ reads' = reads + 1 /\ UNCHANGED <<pc, exported, result>>
  <2>1. PICK to \in {"export", "save", "release"} : to = "export"
    OBVIOUS
  <2>2. k = ExportChunk
    BY <1>4, <1>10
  <2>3. reads' * ExportChunk = n + k
    BY <1>1, <1>2, <1>10, <2>2, CellsBefore DEF CellsRead
  <2>4. buf' = SubSeq(F, 1, n + k)
    BY <1>4, <1>10
  <2>5. /\ Path' \in DOMAIN built.left
        /\ reads' * ExportChunk <= Len(built.left[Path'])
        /\ buf' = SubSeq(built.left[Path'], 1, reads' * ExportChunk)
    BY <1>1, <1>3, <1>4, <1>7, <2>3, <2>4
  <2>6. buf' \in Content /\ buf' # None
    BY <1>4, <2>4, NamesAssumption
  <2>7. /\ reads' \in Nat /\ ContentOrNone(buf') /\ ContentOrNone(exported')
        /\ to # "save" /\ to = "export" /\ pc' = pc /\ result' = result
    BY <1>2, <1>10, <2>1, <2>6 DEF ContentOrNone
  <2>8. /\ ignored' = {} /\ cand' = 3 => Canonical \notin DOMAIN built.left
    BY <1>3
  <2> QED BY ExportStep, <1>2, <1>7, <2>5, <2>6, <2>7, <2>8
<1> QED BY <1>4, <1>6, <1>8, <1>9, <1>10, TakesCases

\* A chunk is read, or part of it and the failure is ignored.
LEMMA ReadTakes ==
  ASSUME FilesInv, ReadChunk \/ ReadCutShort
  PROVE  /\ Exporting /\ buf # None
         /\ UNCHANGED <<version, worker, late, held, upload, cand, artifact, built, ran, abandoned, unreleased>>
         /\ ignored \subseteq ignored' /\ ignored' \subseteq {"touch", "locate", "read", "candidate"}
         /\ \E k \in 0..Len(NextChunk) :
              Takes(SubSeq(NextChunk, 1, k)) /\ (k = Len(NextChunk) \/ ignored' # {})
<1>1. /\ Exporting /\ buf # None
      /\ UNCHANGED <<version, worker, late, held, upload, cand, artifact, built, ran, abandoned, unreleased>>
  BY DEF ReadChunk, ReadCutShort, gateway, marks
<1>2. /\ ignored \subseteq {"touch", "locate", "read", "candidate"} /\ Path \in DOMAIN built.left
      /\ worker[Build].files = built.left /\ IsFiles(built.left) /\ reads \in Nat
  BY <1>1, Building DEF Exporting, Export
<1>3. worker[Build].files[Path] \in Content
  BY <1>2 DEF IsFiles
<1>4. Len(NextChunk) \in Nat /\ SubSeq(NextChunk, 1, Len(NextChunk)) = NextChunk
  <2>1. PICK F, m : /\ F = worker[Build].files[Path] /\ m = (reads + 1) * ExportChunk
                    /\ NextChunk = SubSeq(F, CellsRead + 1, Min2(m, Len(F)))
    BY DEF Chunk, NextChunk, CellsRead
  <2>2. PICK T : T = (Names \cup {Binary}) \X Line
    OBVIOUS
  <2>3. F \in Seq(T) /\ Len(F) \in Nat
    BY <1>3, <2>1, <2>2 DEF Content
  <2>4. CellsRead \in Nat /\ m \in Nat
    BY <1>2, <2>1, CellsBefore DEF CellsRead
  <2>5. Min2(m, Len(F)) \in Nat /\ Min2(m, Len(F)) <= Len(F)
    BY <2>3, <2>4 DEF Min2
  <2>6. NextChunk \in Seq(T)
    BY <2>1, <2>3, <2>4, <2>5
  <2> QED BY <2>6
<1>5. CASE ReadChunk
  <2>1. Takes(NextChunk) /\ ignored' = ignored
    BY <1>5 DEF ReadChunk, marks, NextChunk
  <2>2. PICK part : part = SubSeq(NextChunk, 1, Len(NextChunk))
    OBVIOUS
  <2>3. Takes(part)
    BY <1>4, <2>1, <2>2
  <2>4. Takes(SubSeq(NextChunk, 1, Len(NextChunk))) /\ Len(NextChunk) \in 0..Len(NextChunk)
    BY <1>4, <2>2, <2>3
  <2> QED BY <1>1, <1>2, <2>1, <2>4
<1>6. CASE ReadCutShort
  <2>1. PICK k \in 0..Len(NextChunk) - 1 : Takes(SubSeq(NextChunk, 1, k))
    BY <1>6 DEF ReadCutShort, NextChunk
  <2>2. k \in 0..Len(NextChunk) /\ ignored' = ignored \cup {"read"}
    BY <1>4, <1>6 DEF ReadCutShort
  <2> QED BY <1>1, <1>2, <2>1, <2>2
<1> QED BY <1>5, <1>6

LEMMA ReadKeeps ==
  ASSUME FilesInv, ReadChunk \/ ReadCutShort
  PROVE  FilesInv'
BY ReadTakes, TakesKeeps

\* What an export returns is what it read: a beginning of the candidate.
LEMMA ReadShows ==
  ASSUME FilesInv, ReadChunk \/ ReadCutShort
  PROVE  \/ pc' = [pc EXCEPT ![Build] = "release"] /\ exported' = exported
         \/ /\ pc' = [pc EXCEPT ![Build] = "save"]
            /\ worker[Build].files = built.left /\ Path \in DOMAIN built.left
            /\ Contract!Prefix(exported', built.left[Path])
         \/ pc' = pc /\ exported' = exported
<1>1. PICK k \in 0..Len(NextChunk) : Takes(SubSeq(NextChunk, 1, k))
  BY ReadTakes
<1>2. PICK F, n, chunk : F = built.left[Path] /\ n = CellsRead /\ chunk = SubSeq(NextChunk, 1, k)
  OBVIOUS
<1>3. /\ worker[Build].files = built.left /\ Path \in DOMAIN built.left /\ F \in Content
      /\ n \in Nat /\ k \in Nat /\ buf = SubSeq(F, 1, n) /\ Len(buf) \in Nat
      /\ Len(chunk) = k
      /\ n + k <= Len(F) /\ buf \o chunk = SubSeq(F, 1, n + k)
  BY <1>2, ReadTakes, PartRead
<1>4. Takes(chunk) /\ (chunk = <<>> => k = 0)
  BY <1>1, <1>2, <1>3
<1>5. ASSUME exported' = IF chunk = <<>> THEN buf ELSE buf \o chunk
      PROVE  Contract!Prefix(exported', F)
  <2>1. exported' = SubSeq(F, 1, n + k)
    BY <1>3, <1>4, <1>5
  <2>2. Len(SubSeq(F, 1, n + k)) = n + k
    BY <1>3 DEF Content
  <2> QED BY <1>3, <2>1, <2>2 DEF Contract!Prefix
<1> QED BY <1>2, <1>3, <1>4, <1>5, TakesCases

\* What was exported is saved under the one name that runs look for.
LEMMA SaveKeeps ==
  ASSUME FilesInv, SaveArtifact
  PROVE  FilesInv'
<1>1. /\ pc[Build] = "save" /\ pc' = [pc EXCEPT ![Build] = "release"]
      /\ artifact' = Put(<<>>, <<Path[Len(Path)]>>, exported)
      /\ result' = [result EXCEPT ![Build] = "succeeded"]
      /\ UNCHANGED <<version, worker, late, held, todo, sending, sent, cand, reads, buf, exported,
                     built, ran, ignored, abandoned, unreleased>>
  BY DEF SaveArtifact, Goes, gateway, upload, export, marks
<1>2. /\ pc \in [Sessions -> PC] /\ Build \in Sessions /\ artifact = None /\ Export /\ BuildSeesSource
      /\ cand \in 1..3 /\ reads \in Nat /\ ContentOrNone(buf) /\ ContentOrNone(exported)
      /\ DOMAIN worker = Sessions /\ exported \in Content
      /\ worker[Build] # None => worker[Build].policy \in Policies /\ IsFiles(worker[Build].files)
      /\ built # None => IsFiles(built.from) /\ IsFiles(built.left)
      /\ ignored \subseteq {"touch", "locate", "read", "candidate"}
      /\ Path = IF cand = 3 THEN Entrypoint ELSE Canonical
  BY <1>1, Building DEF Phases
<1>3. /\ <<Path[Len(Path)]>> = Entrypoint /\ Entrypoint \in Names
  BY <1>2, PathIsPlace, GivenNames
<1>4. DOMAIN artifact' = {Entrypoint} /\ artifact'[Entrypoint] = exported
  BY <1>1, <1>3 DEF Put
<1>5. IsFiles(artifact')
  BY <1>2, <1>3, <1>4 DEF IsFiles
<1>6. ignored = {} => exported = built.left[Place]
  BY <1>1, <1>2 DEF Export, Place
<1>7. pc'[Build] = "release"
  BY <1>1, <1>2
<1>8. Export'
  <2>1. Place' = Place
    BY <1>1 DEF Place
  <2> QED BY <1>1, <1>4, <1>6, <1>7, <2>1 DEF Export
<1>9. BuildSeesSource'
  BY <1>1, <1>2 DEF BuildSeesSource
<1>10. PICK to \in {"export", "save", "release"} : to = "release"
  OBVIOUS
<1>11. /\ cand' \in 1..3 /\ reads' \in Nat /\ ContentOrNone(buf') /\ ContentOrNone(exported')
       /\ to # "save" /\ to = "release" /\ pc' = [pc EXCEPT ![Build] = to]
       /\ DOMAIN worker' = Sessions /\ \A t \in Sessions \ {Build} : worker'[t] = worker[t]
       /\ worker'[Build] # None => worker'[Build].policy \in Policies /\ IsFiles(worker'[Build].files)
  BY <1>1, <1>2, <1>10 DEF ContentOrNone
<1>12. /\ \E v \in Results : result' = [result EXCEPT ![Build] = v]
       /\ built' # None => IsFiles(built'.from) /\ IsFiles(built'.left)
       /\ ignored \subseteq ignored' /\ ignored' \subseteq {"touch", "locate", "read", "candidate"}
       /\ pc[Build] \in {"exec", "export", "save"}
  BY <1>1, <1>2 DEF Results
<1> QED BY BuildingStep, <1>1, <1>4, <1>5, <1>8, <1>9, <1>11, <1>12

-----------------------------------------------------------------------------
\* A step that changes nothing.
LEMMA FilesStutter ==
  ASSUME FilesInv, UNCHANGED vars
  PROVE  FilesInv'
<1>1. UNCHANGED <<version, worker, late, held, pc, todo, sending, sent, cand, reads, buf, exported,
                  artifact, result, built, ran, ignored, abandoned, unreleased>>
  BY DEF vars
<1>2. Path' = Path /\ Place' = Place /\ \A s : Payload(s)' = Payload(s)
  BY <1>1, SamePayload DEF Path, Candidates, Place
<1>3. TypeOK'
  BY <1>1 DEF FilesInv, TypeOK
<1>4. Phases'
  BY <1>1 DEF FilesInv, Phases
<1>5. \A s \in Sessions : Transfer(s)' /\ Delivery(s)'
  BY <1>1, <1>2 DEF FilesInv, Transfer, Delivery, Landing, Arrived, Promised
<1>6. Export' /\ BuildSeesSource'
  BY <1>1, <1>2 DEF FilesInv, Export, BuildSeesSource
<1>7. \A r \in Runs : Executed(r)' /\ Honest(r)'
  BY <1>1, <1>2 DEF FilesInv, Executed, Honest
<1> QED BY <1>3, <1>4, <1>5, <1>6, <1>7 DEF FilesInv

LEMMA FilesStep == Inv /\ FilesInv /\ [Next]_vars => FilesInv'
<1> SUFFICES ASSUME Inv, FilesInv, [Next]_vars PROVE FilesInv'
  OBVIOUS
<1>1. ASSUME NEW s \in Sessions, Step(s) PROVE FilesInv'
  BY <1>1, CreateKeeps, EndSteps, NextFileKeeps, TouchKeeps, SendKeeps, ReturnKeeps, ExecuteKeeps
     DEF Step, Create, Upload
<1>2. ASSUME NEW s \in Sessions, LateCreation(s) \/ Evict(s) PROVE FilesInv'
  BY <1>2, EndSteps, EvictKeeps
<1>3. CASE BuildStep
  BY <1>3, CompileKeeps, BuildEnds, LocateKeeps, ReadKeeps, SaveKeeps DEF BuildStep
<1> QED BY <1>1, <1>2, <1>3, FilesStutter DEF Next

LEMMA FilesHold == Spec => []FilesInv
<1> QED BY FilesInit, FilesStep, AlwaysInv, PTL DEF Spec

\* Every variable keeps its type; among others, the candidate that a build
\* exports stays in the list, and what is read and saved are contents of files.
THEOREM TypeCorrect == Spec => []TypeOK
<1>1. FilesInv => TypeOK
  BY DEF FilesInv
<1> QED BY FilesHold, <1>1, PTL

\* For files of any size and chunks of any two sizes: the build command sees
\* every source file cell for cell, and the go.mod that the loop over its lines
\* made of the stored one, if no name of the source is read otherwise by the
\* shell or the client; and a run executes what the build left, cell for cell,
\* when no failure was ignored on the way.  What that loop preserves is checked
\* for short files in MCSandbox.
THEOREM FilesAreExact == Spec => []FilesArriveExact
<1>1. FilesInv => FilesArriveExact
  BY PartsOfRuns DEF FilesInv, FilesArriveExact
<1> QED BY FilesHold, <1>1, PTL

\* For any timeouts: a recorded success is a program that ended in time, with
\* status 0 or with none reported, a recorded time-out is one that overran, and an
\* overrun is recorded as one when the answer can be heard of.
THEOREM OutcomesAreHonest == Spec => []OutcomeIsHonest
<1>1. FilesInv => OutcomeIsHonest
  BY PartsOfRuns DEF FilesInv
<1> QED BY FilesHold, <1>1, PTL

(***************************************************************************)
(* The client implements Backend.  Views and Seen are what the contract    *)
(* sees of a session: how far its owner is, and the files of a session     *)
(* whose upload has returned.                                              *)
(***************************************************************************)
SeenFiles(s) == IF View(s) = "ready" /\ worker[s] # None THEN worker[s].files ELSE <<>>
Views == [s \in Sessions |-> View(s)]
Seen == [s \in Sessions |-> SeenFiles(s)]

LEMMA ContractInit == Init => Contract!Init
<1> SUFFICES ASSUME Init PROVE Contract!Init
  OBVIOUS
<1>1. PICK opened \in Scenarios :
        pc = [s \in Sessions |-> IF s \in opened THEN "create" ELSE "done"]
  BY DEF Init
<1>2. \A s \in Sessions : View(s) \in {"new", "closed"}
  BY <1>1 DEF View
<1>3. Views \in [Sessions -> {"new", "closed"}]
  BY <1>2 DEF Views
<1>4. Seen = [s \in Sessions |-> <<>>]
  BY <1>2 DEF Seen, SeenFiles
<1> QED BY <1>3, <1>4 DEF Contract!Init, Views, Seen, SeenFiles

\* Where an owner is says what its session is to the contract.
LEMMA ViewIs ==
  ASSUME NEW s
  PROVE  /\ pc[s] = "create" => View(s) = "new"
         /\ pc[s] = "upload" => View(s) = "open"
         /\ pc[s] = "exec" /\ s \in Checks => View(s) = "open"
         /\ pc[s] \in {"exec", "export", "save"} /\ s \notin Checks => View(s) = "ready"
         /\ pc[s] = "release" => View(s) = "closing"
         /\ pc[s] = "done" => View(s) = "closed"
<1>1. CASE pc[s] = "create"
  BY <1>1 DEF View
<1>2. CASE pc[s] = "upload"
  BY <1>2 DEF View
<1>3. CASE pc[s] = "exec" /\ s \in Checks
  BY <1>3 DEF View
<1>4. CASE pc[s] \in {"exec", "export", "save"} /\ s \notin Checks
  BY <1>4 DEF View
<1>5. CASE pc[s] = "release"
  BY <1>5 DEF View
<1>6. CASE pc[s] = "done"
  BY <1>6 DEF View
<1> QED BY <1>1, <1>2, <1>3, <1>4, <1>5, <1>6

\* A step of one session changes the view of that session only.
LEMMA OneMoves ==
  ASSUME NEW s \in Sessions, pc \in [Sessions -> PC], NEW to \in PC,
         pc' = [pc EXCEPT ![s] = to] \/ (pc' = pc /\ to = pc[s]),
         \A t \in Sessions \ {s} : worker'[t] = worker[t]
  PROVE  /\ pc'[s] = to
         /\ Views' = [Views EXCEPT ![s] = View(s)']
         /\ Seen' = [Seen EXCEPT ![s] = SeenFiles(s)']
<1>1. pc'[s] = to /\ \A t \in Sessions \ {s} : pc'[t] = pc[t]
  OBVIOUS
<1>2. \A t \in Sessions \ {s} : View(t)' = View(t) /\ SeenFiles(t)' = SeenFiles(t)
  BY <1>1 DEF View, SeenFiles
<1> QED BY <1>1, <1>2 DEF Views, Seen

\* The steps of the contract, by what they do to the view of a session.
LEMMA ContractSteps ==
  ASSUME NEW s \in Sessions,
         Views' = [Views EXCEPT ![s] = View(s)'], Seen' = [Seen EXCEPT ![s] = SeenFiles(s)']
  PROVE  /\ View(s)' = View(s) /\ SeenFiles(s)' = SeenFiles(s) /\ exported' = exported
              => UNCHANGED Contract!vars
         /\ View(s) = "new" /\ View(s)' = "open" /\ exported' = exported => Contract!CreateSession(s)
         /\ View(s) = "open" /\ View(s)' = "closing" /\ exported' = exported => Contract!Exec(s)
         /\ View(s) = "ready" /\ View(s)' \in {"ready", "closing"} /\ exported' = exported
              => Contract!Exec(s)
         /\ View(s) \in {"new", "open", "ready"} /\ View(s)' = "closing" /\ exported' = exported
              => Contract!Fail(s)
         /\ View(s)' = View(s) /\ SeenFiles(s)' = <<>> /\ exported' = exported => Contract!Lose(s)
         /\ View(s) = "closing" /\ View(s)' = "closed" /\ exported' = exported => Contract!Release(s)
<1>1. Views[s] = View(s) /\ Seen[s] = SeenFiles(s)
  BY DEF Views, Seen
<1>2. /\ View(s)' = View(s) => Views' = Views
      /\ SeenFiles(s)' = SeenFiles(s) => Seen' = Seen
      /\ \A t \in Sessions \ {s} : Seen'[t] = Seen[t]
  BY DEF Views, Seen
<1>3. /\ View(s) # "ready" => SeenFiles(s) = <<>>
      /\ View(s)' # "ready" => SeenFiles(s)' = <<>>
  BY DEF SeenFiles
<1>4. View(s)' = View(s) /\ SeenFiles(s)' = SeenFiles(s) /\ exported' = exported
        => UNCHANGED Contract!vars
  BY <1>2 DEF Contract!vars, Views, Seen, SeenFiles
<1>5. View(s) = "new" /\ View(s)' = "open" /\ exported' = exported => Contract!CreateSession(s)
  BY <1>1, <1>2, <1>3 DEF Contract!CreateSession, Contract!Moves, Views, Seen, SeenFiles
<1>6. View(s) = "open" /\ View(s)' = "closing" /\ exported' = exported => Contract!Exec(s)
  BY <1>1, <1>2, <1>3 DEF Contract!Exec, Contract!Moves, Contract!OnlyFiles, Views, Seen, SeenFiles
<1>7. View(s) = "ready" /\ View(s)' \in {"ready", "closing"} /\ exported' = exported => Contract!Exec(s)
  BY <1>1, <1>2, <1>3 DEF Contract!Exec, Contract!Moves, Contract!OnlyFiles, Views, Seen, SeenFiles
<1>8. View(s) \in {"new", "open", "ready"} /\ View(s)' = "closing" /\ exported' = exported => Contract!Fail(s)
  BY <1>1, <1>2, <1>3 DEF Contract!Fail, Contract!Moves, Contract!Empties, Views, Seen, SeenFiles
<1>9. View(s)' = View(s) /\ SeenFiles(s)' = <<>> /\ exported' = exported => Contract!Lose(s)
  BY <1>1, <1>2, <1>3 DEF Contract!Lose, Contract!Empties, Views, Seen, SeenFiles
<1>10. View(s) = "closing" /\ View(s)' = "closed" /\ exported' = exported => Contract!Release(s)
  BY <1>1, <1>2, <1>3 DEF Contract!Release, Contract!Moves, Contract!Empties, Views, Seen, SeenFiles
<1> QED BY <1>4, <1>5, <1>6, <1>7, <1>8, <1>9, <1>10

\* A step of the client that returns no file is one of the contract, or none.
LEMMA OwnerMoves ==
  ASSUME TypeOK, Phases, NEW s \in Sessions, NEW to \in PC,
         pc' = [pc EXCEPT ![s] = to] \/ (pc' = pc /\ to = pc[s]),
         \A t \in Sessions \ {s} : worker'[t] = worker[t], exported' = exported,
         \/ to = pc[s] /\ (SeenFiles(s)' = SeenFiles(s) \/ SeenFiles(s)' = <<>>)
         \/ pc[s] = "create" /\ to = (IF s \in Checks THEN "exec" ELSE "upload")
         \/ pc[s] \in {"create", "upload", "exec", "export", "save"} /\ to = "release"
         \/ pc[s] = "exec" /\ to = "export" /\ s \notin Checks
         \/ pc[s] = "release" /\ to = "done"
  PROVE  [Contract!Next]_Contract!vars
<1>1. pc \in [Sessions -> PC] /\ pc[s] \in PC
  BY DEF TypeOK
<1>2. pc'[s] = to /\ Views' = [Views EXCEPT ![s] = View(s)'] /\ Seen' = [Seen EXCEPT ![s] = SeenFiles(s)']
  BY <1>1, OneMoves
<1>3. /\ to = "upload" => View(s)' = "open"
      /\ to = "exec" /\ s \in Checks => View(s)' = "open"
      /\ to \in {"exec", "export", "save"} /\ s \notin Checks => View(s)' = "ready"
      /\ to = "release" => View(s)' = "closing"
      /\ to = "done" => View(s)' = "closed"
      /\ to = pc[s] => View(s)' = View(s)
  BY <1>2 DEF View
<1>4. \/ UNCHANGED Contract!vars \/ Contract!CreateSession(s) \/ Contract!Exec(s)
      \/ Contract!Fail(s) \/ Contract!Lose(s) \/ Contract!Release(s)
  <2>1. CASE to = pc[s] /\ SeenFiles(s)' = SeenFiles(s)
    BY <1>2, <1>3, <2>1, ContractSteps
  <2>2. CASE to = pc[s] /\ SeenFiles(s)' = <<>>
    BY <1>2, <1>3, <2>2, ContractSteps
  <2>3. CASE pc[s] = "create" /\ to = (IF s \in Checks THEN "exec" ELSE "upload")
    <3>1. View(s) = "new" /\ View(s)' = "open"
      BY <1>3, <2>3, ViewIs
    <3> QED BY <1>2, <3>1, ContractSteps
  <2>4. CASE pc[s] \in {"create", "upload", "exec", "export", "save"} /\ to = "release"
    <3>1. View(s) \in {"new", "open", "ready"} \/ (s \in Checks /\ pc[s] \in {"export", "save"})
      BY <2>4, ViewIs
    <3>2. View(s)' = "closing"
      BY <1>3, <2>4
    <3>3. ~(s \in Checks /\ pc[s] \in {"export", "save"})
      BY SandboxAssumption DEF Phases
    <3> QED BY <1>2, <3>1, <3>2, <3>3, ContractSteps
  <2>5. CASE pc[s] = "exec" /\ to = "export" /\ s \notin Checks
    <3>1. View(s) = "ready" /\ View(s)' = "ready"
      BY <1>3, <2>5, ViewIs
    <3> QED BY <1>2, <3>1, ContractSteps
  <2>6. CASE pc[s] = "release" /\ to = "done"
    <3>1. View(s) = "closing" /\ View(s)' = "closed"
      BY <1>3, <2>6, ViewIs
    <3> QED BY <1>2, <3>1, ContractSteps
  <2> QED BY <2>1, <2>2, <2>3, <2>4, <2>5, <2>6
<1> QED BY <1>4 DEF Contract!Next

\* Creations, failures and releases, and what the gateway does by itself.
LEMMA LifecycleRefines ==
  ASSUME Inv, FilesInv, NEW s \in Sessions,
         \/ Create(s) \/ LateCreation(s) \/ Evict(s) \/ UploadFails(s) \/ QueryToolchain(s)
         \/ Execute(s) \/ ExecFails(s) \/ Release(s) \/ ReleaseFails(s)
  PROVE  [Contract!Next]_Contract!vars
<1>1. TypeOK /\ Phases /\ DOMAIN worker = Sessions /\ pc \in [Sessions -> PC] /\ pc[s] \in PC
  BY DEF FilesInv, TypeOK
<1>2. exported' = exported
  BY DEF Create, CreateSession, CreateRefused, CreateAbandoned, LateCreation, Evict, UploadFails,
         QueryToolchain, Execute, ExecFails, Release, ReleaseFails, export
<1>3. \A t \in Sessions \ {s} : worker'[t] = worker[t]
  BY <1>1 DEF Create, CreateSession, CreateRefused, CreateAbandoned, LateCreation, Evict, UploadFails,
         QueryToolchain, Execute, ExecFails, Release, ReleaseFails, gateway
<1>4. "release" \in PC /\ "done" \in PC
  BY DEF PC
<1>5. CASE \/ CreateRefused(s) \/ CreateAbandoned(s) \/ UploadFails(s) \/ QueryToolchain(s)
           \/ Execute(s) \/ ExecFails(s)
  <2>1. pc' = [pc EXCEPT ![s] = "release"] /\ pc[s] \in {"create", "upload", "exec", "export", "save"}
    BY <1>5 DEF CreateRefused, CreateAbandoned, UploadFails, QueryToolchain, Execute, ExecFails,
                Fails, Goes, Begins
  <2> QED BY <1>1, <1>2, <1>3, <1>4, <2>1, OwnerMoves
<1>6. CASE CreateSession(s)
  <2>1. PICK to \in PC : /\ pc' = [pc EXCEPT ![s] = to] /\ pc[s] = "create"
                         /\ to = "release" \/ to = (IF s \in Checks THEN "exec" ELSE "upload")
    BY <1>6 DEF CreateSession, Fails, Goes, Begins, PC
  <2> QED BY <1>1, <1>2, <1>3, <2>1, OwnerMoves
<1>7. CASE Release(s) \/ ReleaseFails(s)
  <2>1. pc' = [pc EXCEPT ![s] = "done"] /\ pc[s] = "release"
    BY <1>7 DEF Release, ReleaseFails, Goes
  <2> QED BY <1>1, <1>2, <1>3, <1>4, <2>1, OwnerMoves
<1>8. CASE LateCreation(s) \/ Evict(s)
  <2>1. SeenFiles(s)' = <<>> /\ pc' = pc
    <3>1. CASE LateCreation(s)
      <4>1. pc' = pc /\ pc'[s] \in {"release", "done"}
        BY <3>1 DEF LateCreation, Inv, Shapes, AbandonedIsOver
      <4>2. View(s)' # "ready"
        BY <4>1 DEF View
      <4> QED BY <4>1, <4>2 DEF SeenFiles
    <3>2. CASE Evict(s)
      <4>1. pc' = pc /\ worker'[s] = None
        BY <1>1, <3>2 DEF Evict
      <4> QED BY <4>1 DEF SeenFiles
    <3> QED BY <1>8, <3>1, <3>2
  <2>2. PICK to \in PC : to = pc[s]
    BY <1>1
  <2> QED BY <1>1, <1>2, <1>3, <2>1, <2>2, OwnerMoves
<1> QED BY <1>5, <1>6, <1>7, <1>8 DEF Create

\* While files are sent the contract sees none; when the upload returns it sees
\* them all.
LEMMA UploadRefines ==
  ASSUME Inv, FilesInv, NEW s \in Sessions,
         NextFile(s) \/ TouchFile(s) \/ SendChunk(s) \/ UploadReturns(s)
  PROVE  [Contract!Next]_Contract!vars
<1>1. /\ TypeOK /\ Phases /\ DOMAIN worker = Sessions /\ pc \in [Sessions -> PC] /\ pc[s] = "upload"
      /\ exported' = exported
  BY DEF FilesInv, TypeOK, NextFile, TouchFile, SendChunk, UploadReturns, export
<1>2. \A t \in Sessions \ {s} : worker'[t] = worker[t]
  BY <1>1 DEF NextFile, TouchFile, SendChunk, UploadReturns, Writes, gateway
<1>3. CASE NextFile(s) \/ TouchFile(s) \/ SendChunk(s)
  <2>1. pc' = pc
    BY <1>3 DEF NextFile, TouchFile, SendChunk
  <2>2. SeenFiles(s)' = SeenFiles(s)
    BY <1>1, <2>1 DEF SeenFiles, View
  <2>3. PICK to \in PC : to = pc[s]
    BY <1>1
  <2> QED BY <1>1, <1>2, <2>1, <2>2, <2>3, OwnerMoves
<1>4. CASE UploadReturns(s)
  <2>1. /\ todo[s] = {} /\ sending[s] = None /\ pc' = [pc EXCEPT ![s] = "exec"] /\ "exec" \in PC
        /\ worker' = worker
    BY <1>4 DEF UploadReturns, Goes, gateway, PC
  <2>2. s \notin Checks /\ Delivery(s) /\ (s \in Runs => artifact # None)
    BY <1>1, Uploading
  <2>3. pc'[s] = "exec" /\ Views' = [Views EXCEPT ![s] = View(s)'] /\ Seen' = [Seen EXCEPT ![s] = SeenFiles(s)']
    BY <1>1, <1>2, <2>1, OneMoves
  <2>4. View(s) = "open" /\ View(s)' = "ready"
    BY <1>1, <2>2, <2>3 DEF View
  <2>5. /\ DOMAIN Wanted(s) = Landing(s)
        /\ \A n \in Landing(s) : Wanted(s)[n] = {Payload(s)[m] : m \in {l \in DOMAIN Payload(s) : Target(l) = n}}
    BY <2>2 DEF Wanted, Landing
  <2>6. ASSUME worker[s] # None
        PROVE  /\ DOMAIN worker[s].files \subseteq DOMAIN Wanted(s)
               /\ \A n \in DOMAIN Wanted(s) : <<>> \notin Wanted(s)[n] =>
                    n \in DOMAIN worker[s].files /\ worker[s].files[n] \in Wanted(s)[n]
    <3>1. DOMAIN worker[s].files \subseteq DOMAIN Wanted(s)
      BY <1>1, <2>2, <2>5, <2>6 DEF Delivery
    <3>2. ASSUME NEW n \in Landing(s), <<>> \notin Wanted(s)[n]
          PROVE  n \in DOMAIN worker[s].files /\ worker[s].files[n] \in Wanted(s)[n]
      <4>1. PICK m \in DOMAIN Payload(s) : Target(m) = n
        BY DEF Landing
      <4>2. Promised(s, n)
        BY <2>5, <3>2 DEF Promised
      <4>3. Arrived(s, n)
        BY <1>1, <2>1, <2>2, <2>6, <4>1, <4>2 DEF Delivery
      <4> QED BY <2>5, <4>3 DEF Arrived
    <3> QED BY <2>5, <3>1, <3>2
  <2>7. SeenFiles(s)' = IF worker[s] # None THEN worker[s].files ELSE <<>>
    BY <2>1, <2>4 DEF SeenFiles
  <2>8. Contract!UploadFiles(s)
    <3>1. Contract!Moves(s, {"open"}, {"ready"})
      BY <2>3, <2>4 DEF Contract!Moves, Views
    <3>2. \A t \in Sessions \ {s} : Seen'[t] = Seen[t]
      BY <2>3 DEF Seen
    <3>3. Seen'[s] = SeenFiles(s)'
      BY DEF Seen
    <3>4. CASE worker[s] = None
      <4>1. Contract!Empties(s)
        BY <2>3, <2>7, <3>4 DEF Contract!Empties, Seen, SeenFiles
      <4> QED BY <1>1, <3>1, <4>1 DEF Contract!UploadFiles
    <3>5. CASE worker[s] # None
      <4>1. /\ DOMAIN Seen'[s] \subseteq DOMAIN Wanted(s)
            /\ \A n \in DOMAIN Wanted(s) : <<>> \notin Wanted(s)[n] =>
                 n \in DOMAIN Seen'[s] /\ Seen'[s][n] \in Wanted(s)[n]
        BY <2>6, <2>7, <3>3, <3>5
      <4>2. Contract!OnlyFiles(s)
        BY <3>2 DEF Contract!OnlyFiles, Seen, SeenFiles
      <4> QED BY <1>1, <3>1, <4>1, <4>2 DEF Contract!UploadFiles, Seen, SeenFiles
    <3> QED BY <3>4, <3>5
  <2> QED BY <2>8 DEF Contract!Next
<1> QED BY <1>3, <1>4

\* What the build does: a command, reads that nobody sees until the last, and the
\* end of its session.
LEMMA BuildRefines ==
  ASSUME FilesInv, BuildStep
  PROVE  [Contract!Next]_Contract!vars
<1>1. /\ TypeOK /\ Phases /\ DOMAIN worker = Sessions /\ pc \in [Sessions -> PC] /\ pc[Build] \in PC
      /\ Build \in Sessions /\ Build \notin Checks
      /\ {"release", "export", "save"} \subseteq PC
  BY SandboxAssumption DEF FilesInv, TypeOK, Sessions, PC
<1>2. \A t \in Sessions \ {Build} : worker'[t] = worker[t]
  BY <1>1 DEF BuildStep, Compile, CompileFails, Locate, ReadChunk, ReadCutShort, ExportFails,
              SaveArtifact, SaveFails, gateway
<1>3. CASE CompileFails \/ SaveArtifact \/ SaveFails
  <2>1. /\ pc' = [pc EXCEPT ![Build] = "release"] /\ exported' = exported
        /\ pc[Build] \in {"create", "upload", "exec", "export", "save"}
    BY <1>3 DEF CompileFails, SaveArtifact, SaveFails, Fails, Goes, export
  <2> QED BY <1>1, <1>2, <2>1, OwnerMoves
<1>4. CASE Compile
  <2>1. pc' = [pc EXCEPT ![Build] = "export"] /\ exported' = exported /\ pc[Build] = "exec"
    BY <1>4 DEF Compile, Goes, export
  <2> QED BY <1>1, <1>2, <2>1, OwnerMoves
<1>5. ASSUME pc[Build] = "export", pc' = pc \/ pc' = [pc EXCEPT ![Build] = "release"],
             exported' = exported, worker' = worker
      PROVE  [Contract!Next]_Contract!vars
  <2>1. CASE pc' = pc
    <3>1. SeenFiles(Build)' = SeenFiles(Build)
      BY <1>5, <2>1 DEF SeenFiles, View
    <3>2. PICK to \in PC : to = pc[Build]
      BY <1>1
    <3> QED BY <1>1, <1>2, <1>5, <2>1, <3>1, <3>2, OwnerMoves
  <2>2. CASE pc' = [pc EXCEPT ![Build] = "release"]
    BY <1>1, <1>2, <1>5, <2>2, OwnerMoves
  <2> QED BY <1>5, <2>1, <2>2
<1>6. CASE Locate \/ ExportFails
  <2>1. NextCandidate => pc' = pc \/ pc' = [pc EXCEPT ![Build] = "release"]
    BY DEF NextCandidate, Fails, Goes
  <2>2. /\ pc[Build] = "export" /\ exported' = exported /\ worker' = worker
        /\ pc' = pc \/ pc' = [pc EXCEPT ![Build] = "release"]
    BY <1>6, <2>1 DEF Locate, ExportFails, Exporting, gateway
  <2> QED BY <1>5, <2>2
<1>7. CASE ReadChunk \/ ReadCutShort
  <2>1. /\ pc[Build] = "export" /\ worker[Build] # None /\ worker' = worker
    BY <1>7 DEF ReadChunk, ReadCutShort, Exporting, gateway
  <2>2. CASE (pc' = pc \/ pc' = [pc EXCEPT ![Build] = "release"]) /\ exported' = exported
    BY <1>5, <2>1, <2>2
  <2>3. CASE /\ pc' = [pc EXCEPT ![Build] = "save"]
             /\ worker[Build].files = built.left /\ Path \in DOMAIN built.left
             /\ Contract!Prefix(exported', built.left[Path])
    <3>1. /\ pc'[Build] = "save" /\ Views' = [Views EXCEPT ![Build] = View(Build)']
          /\ Seen' = [Seen EXCEPT ![Build] = SeenFiles(Build)']
      BY <1>1, <1>2, <2>3, OneMoves
    <3>2. View(Build) = "ready" /\ View(Build)' = "ready"
      BY <1>1, <2>1, <3>1 DEF View
    <3>3. SeenFiles(Build) = built.left /\ SeenFiles(Build)' = SeenFiles(Build)
      BY <2>1, <2>3, <3>2 DEF SeenFiles
    <3>4. Views[Build] = "ready" /\ Seen[Build] = built.left /\ Seen' = Seen
      BY <1>1, <3>1, <3>2, <3>3 DEF Views, Seen
    <3>5. \E n \in DOMAIN Seen[Build] : Contract!Prefix(exported', Seen[Build][n])
      BY <2>3, <3>4
    <3>6. Contract!Moves(Build, {"ready"}, {"ready"})
      BY <3>1, <3>2, <3>4 DEF Contract!Moves, Views
    <3>7. Contract!ExportFiles(Build)
      BY <3>4, <3>5, <3>6 DEF Contract!ExportFiles, Seen, SeenFiles
    <3> QED BY <1>1, <3>7 DEF Contract!Next
  <2> QED BY <1>7, <2>2, <2>3, ReadShows
<1> QED BY <1>3, <1>4, <1>6, <1>7 DEF BuildStep

\* Every step of the client is a step of the contract or leaves its view alone.
LEMMA ContractStep == Inv /\ FilesInv /\ [Next]_vars => [Contract!Next]_Contract!vars
<1> SUFFICES ASSUME Inv, FilesInv, [Next]_vars PROVE [Contract!Next]_Contract!vars
  OBVIOUS
<1>1. ASSUME NEW s \in Sessions, Step(s) \/ LateCreation(s) \/ Evict(s)
      PROVE  [Contract!Next]_Contract!vars
  BY <1>1, LifecycleRefines, UploadRefines DEF Step, Upload
<1>2. CASE UNCHANGED vars
  <2>1. UNCHANGED <<pc, worker, exported>>
    BY <1>2 DEF vars
  <2>2. \A s : View(s)' = View(s) /\ SeenFiles(s)' = SeenFiles(s)
    BY <2>1 DEF View, SeenFiles
  <2> QED BY <2>1, <2>2 DEF Contract!vars, SeenFiles
<1> QED BY <1>1, <1>2, BuildRefines DEF Next

\* Whatever the gateway does, callers see what Backend promises: files that are
\* uploaded at once and in full, and exports that return a file or its beginning,
\* although both take many commands.
THEOREM ClientKeepsContract == Spec => KeepsContract
  BY ContractInit, ContractStep, AlwaysInv, FilesHold, PTL DEF Spec, KeepsContract, Contract!Spec
=============================================================================
