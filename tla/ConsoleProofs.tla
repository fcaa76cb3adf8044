---------------------------- MODULE ConsoleProofs ----------------------------
(***************************************************************************)
(* Proofs about Console and LineOnScreen, for a history of any length,     *)
(* lines of any length and a screen of any size.                           *)
(*                                                                         *)
(* What keeps the thread and the keyboard interrupt apart is nowhere       *)
(* written down in the code: at each place of the thread only some states  *)
(* of the state machine are possible, because function may only take       *)
(* certain steps from the state it finds.  Control says which.  With it,   *)
(* the line on the screen is the line that is executed, and no key reaches *)
(* a line that has been entered.                                           *)
(*                                                                         *)
(* The screen shows that line wherever it begins: the invariant says where *)
(* it stands, that nothing stands behind it and where the cursor is, and   *)
(* CommandToScreen brings it about from any screen.                        *)
(***************************************************************************)
EXTENDS LineOnScreen, ScreenProofs, FiniteSetTheorems

-----------------------------------------------------------------------------
(***************************************************************************)
(* Lines.                                                                  *)
(***************************************************************************)
(* A part of a line is a line.                                             *)
LEMMA PartOfLine ==
    ASSUME NEW text \in Seq(Chars), NEW m \in Nat \ {0}, NEW n \in Int,
           n <= Len(text)
    PROVE  /\ SubSeq(text, m, n) \in Seq(Chars)
           /\ Len(SubSeq(text, m, n)) = IF m <= n THEN n - m + 1 ELSE 0
<1>1. Len(text) \in Nat /\ text \in [1 .. Len(text) -> Chars]
      BY LenProperties
<1>2. \A k \in m .. n : text[k] \in Chars
      BY <1>1
<1> QED BY <1>2, SubSeqProperties

(* Inserting a character makes the line one longer.                        *)
LEMMA InsertedLine ==
    ASSUME NEW text \in Seq(Chars), NEW c \in Chars, NEW pos \in 0 .. Len(text)
    PROVE  /\ insertChar(c, text, pos) \in Seq(Chars)
           /\ Len(insertChar(c, text, pos)) = Len(text) + 1
<1>1. Len(text) \in Nat /\ text \in [1 .. Len(text) -> Chars]
      BY LenProperties
<1>2. PICK before : before = SubSeq(text, 1, (pos + 1) - 1)
      OBVIOUS
<1>3. PICK after : after = SubSeq(text, pos + 1, Len(text))
      OBVIOUS
<1>4. before \in Seq(Chars) /\ Len(before) = pos
      BY <1>1, <1>2, PartOfLine
<1>5. after \in Seq(Chars) /\ Len(after) = Len(text) - pos
  <2>1. pos + 1 \in Nat \ {0} /\ Len(text) \in Int /\ Len(text) <= Len(text)
        BY <1>1
  <2>2. after \in Seq(Chars)
        /\ Len(after) = IF pos + 1 <= Len(text) THEN Len(text) - (pos + 1) + 1
                        ELSE 0
        BY <1>3, <2>1, PartOfLine
  <2>3. CASE pos + 1 <= Len(text)
    <3>1. Len(after) = Len(text) - (pos + 1) + 1
          BY <2>2, <2>3
    <3>2. Len(text) - (pos + 1) + 1 = Len(text) - pos
          BY <1>1
    <3> QED BY <2>2, <3>1, <3>2
  <2>4. CASE ~(pos + 1 <= Len(text))
    <3>1. Len(after) = 0
          BY <2>2, <2>4
    <3>2. PICK len \in Nat : len = Len(text)
          BY <1>1
    <3>3. pos \in 0 .. len /\ ~(pos + 1 <= len)
          BY <2>4, <3>2
    <3>4. len - pos = 0
          BY <3>3
    <3> QED BY <2>2, <3>1, <3>2, <3>4
  <2> QED BY <2>3, <2>4
<1>6. <<c>> \in Seq(Chars) /\ Len(<<c>>) = 1
      OBVIOUS
<1>7. PICK first : first = before \o <<c>>
      OBVIOUS
<1>8. first \in Seq(Chars) /\ Len(first) = pos + 1
      BY <1>4, <1>6, <1>7, ConcatProperties
<1>9. first \o after \in Seq(Chars)
      /\ Len(first \o after) = Len(first) + Len(after)
      BY <1>5, <1>8, ConcatProperties
<1>10. insertChar(c, text, pos) = first \o after
      BY <1>2, <1>3, <1>7 DEF insertChar, InsertAt
<1> QED BY <1>1, <1>5, <1>8, <1>9, <1>10

(* Removing a character makes it one shorter.                              *)
LEMMA RemovedLine ==
    ASSUME NEW text \in Seq(Chars), NEW pos \in 1 .. Len(text)
    PROVE  /\ removeChar(text, pos) \in Seq(Chars)
           /\ Len(removeChar(text, pos)) = Len(text) - 1
<1>1. Len(text) \in Nat /\ text \in [1 .. Len(text) -> Chars]
      BY LenProperties
<1>2. PICK before : before = SubSeq(text, 1, pos - 1)
      OBVIOUS
<1>3. PICK after : after = SubSeq(text, pos + 1, Len(text))
      OBVIOUS
<1>4. before \in Seq(Chars) /\ Len(before) = pos - 1
      BY <1>1, <1>2, PartOfLine
<1>5. after \in Seq(Chars) /\ Len(after) = Len(text) - pos
  <2>1. pos + 1 \in Nat \ {0} /\ Len(text) \in Int /\ Len(text) <= Len(text)
        BY <1>1
  <2>2. after \in Seq(Chars)
        /\ Len(after) = IF pos + 1 <= Len(text) THEN Len(text) - (pos + 1) + 1
                        ELSE 0
        BY <1>3, <2>1, PartOfLine
  <2>3. CASE pos + 1 <= Len(text)
    <3>1. Len(after) = Len(text) - (pos + 1) + 1
          BY <2>2, <2>3
    <3>2. Len(text) - (pos + 1) + 1 = Len(text) - pos
          BY <1>1
    <3> QED BY <2>2, <3>1, <3>2
  <2>4. CASE ~(pos + 1 <= Len(text))
    <3>1. Len(after) = 0
          BY <2>2, <2>4
    <3>2. PICK len \in Nat : len = Len(text)
          BY <1>1
    <3>3. pos \in 0 .. len /\ ~(pos + 1 <= len)
          BY <2>4, <3>2
    <3>4. len - pos = 0
          BY <3>3
    <3> QED BY <2>2, <3>1, <3>2, <3>4
  <2> QED BY <2>3, <2>4
<1>6. before \o after \in Seq(Chars)
      /\ Len(before \o after) = Len(before) + Len(after)
      BY <1>4, <1>5, ConcatProperties
<1>7. removeChar(text, pos) = before \o after
      BY <1>2, <1>3 DEF removeChar, RemoveAt
<1>8. Len(before) + Len(after) = Len(text) - 1
      BY <1>1, <1>4, <1>5
<1> QED BY <1>6, <1>7, <1>8

(* Storing a character where the cursor is keeps what stands around it.    *)
LEMMA OverwrittenLine ==
    ASSUME NEW text \in Seq(Chars), NEW c \in Chars, NEW pos \in 0 .. Len(text)
    PROVE  LET new == SubSeq(text, 1, pos) \o <<c>>
                        \o SubSeq(text, pos + 2, Len(text))
           IN  new \in Seq(Chars) /\ Len(new) >= pos + 1
<1>1. Len(text) \in Nat /\ text \in [1 .. Len(text) -> Chars]
      BY LenProperties
<1>2. PICK before : before = SubSeq(text, 1, pos)
      OBVIOUS
<1>3. PICK after : after = SubSeq(text, pos + 2, Len(text))
      OBVIOUS
<1>4. before \in Seq(Chars) /\ Len(before) = pos
      BY <1>1, <1>2, PartOfLine
<1>5. after \in Seq(Chars) /\ Len(after) \in Nat
      BY <1>1, <1>3, PartOfLine
<1>6. <<c>> \in Seq(Chars) /\ Len(<<c>>) = 1
      OBVIOUS
<1>7. PICK first : first = before \o <<c>>
      OBVIOUS
<1>8. first \in Seq(Chars) /\ Len(first) = pos + 1
      BY <1>4, <1>6, <1>7, ConcatProperties
<1>9. first \o after \in Seq(Chars)
      /\ Len(first \o after) = Len(first) + Len(after)
      BY <1>5, <1>8, ConcatProperties
<1>10. first \o after \in Seq(Chars) /\ Len(first \o after) >= pos + 1
      BY <1>5, <1>8, <1>9
<1> QED BY <1>2, <1>3, <1>7, <1>10

(* A word is made of characters of its line.                               *)
LEMMA WordIsWord ==
    ASSUME NEW text \in Seq(Chars), NEW k \in Nat \ {0}
    PROVE  WordAt(text, k) \in Seq(Chars)
<1>1. Len(text) \in Nat /\ text \in [1 .. Len(text) -> Chars]
      BY LenProperties
<1>2. PICK blanks : blanks = {b \in k .. Len(text) : text[b] = Blank}
      OBVIOUS
<1>3. PICK last : last = IF blanks = {} THEN Len(text) ELSE Min(blanks) - 1
      OBVIOUS
<1>4. last \in Int /\ last <= Len(text)
  <2>1. CASE blanks = {}
        BY <1>1, <1>3, <2>1
  <2>2. CASE blanks # {}
    <3>1. blanks \in SUBSET Nat
          BY <1>1, <1>2
    <3>2. Min(blanks) \in blanks
          BY <2>2, <3>1, LeastPosition
    <3>3. Min(blanks) \in k .. Len(text)
          BY <1>2, <3>2
    <3> QED BY <1>1, <1>3, <2>2, <3>3
  <2> QED BY <2>1, <2>2
<1>5. \A n \in k .. last : text[n] \in Chars
      BY <1>1, <1>4
<1>6. SubSeq(text, k, last) \in Seq(Chars)
      BY <1>4, <1>5, SubSeqProperties
<1> QED BY <1>2, <1>3, <1>6 DEF WordAt

(* Among finitely many numbers there is one with any number of smaller     *)
(* ones, less than there are numbers.                                      *)
LEMMA EveryRankIsTaken ==
    ASSUME NEW S \in SUBSET Nat, IsFiniteSet(S), NEW n \in 1 .. Cardinality(S)
    PROVE  \E k \in S : Cardinality({x \in S : x < k}) = n - 1
<1> DEFINE rank == [k \in S |-> Cardinality({x \in S : x < k})]
           ranks == 0 .. Cardinality(S) - 1
<1>1. Cardinality(S) \in Nat
      BY FS_CardinalityType
<1>2. ASSUME NEW k \in S
      PROVE  /\ IsFiniteSet({x \in S : x < k})
             /\ Cardinality({x \in S : x < k}) \in ranks
  <2>1. PICK smaller : smaller = {x \in S : x < k}
        OBVIOUS
  <2>2. smaller \in SUBSET S /\ k \notin smaller
        BY <2>1
  <2>3. IsFiniteSet(smaller) /\ Cardinality(smaller) <= Cardinality(S)
        /\ Cardinality(smaller) # Cardinality(S)
        BY <2>2, FS_Subset
  <2>4. Cardinality(smaller) \in Nat
        BY <2>3, FS_CardinalityType
  <2>5. Cardinality(smaller) \in ranks
        BY <1>1, <2>3, <2>4
  <2> QED BY <2>1, <2>3, <2>5
<1>3. rank \in [S -> ranks]
      BY <1>2
<1>4. ASSUME NEW k \in S, NEW l \in S, k < l
      PROVE  rank[k] # rank[l]
  <2>1. PICK below : below = {x \in S : x < k}
        OBVIOUS
  <2>2. PICK above : above = {x \in S : x < l}
        OBVIOUS
  <2>3. below \in SUBSET above /\ k \in above /\ k \notin below
    <3>1. \A x \in S : x < k => x < l
          BY <1>4
    <3>2. ~(k < k)
          OBVIOUS
    <3> QED BY <1>4, <2>1, <2>2, <3>1, <3>2
  <2>4. IsFiniteSet(above)
        BY <1>2, <2>2
  <2>5. Cardinality(below) # Cardinality(above)
        BY <2>3, <2>4, FS_Subset
  <2> QED BY <2>1, <2>2, <2>5
<1>5. rank \in Injection(S, ranks)
  <2>1. ASSUME NEW k \in S, NEW l \in S, rank[k] = rank[l]
        PROVE  k = l
    <3>1. k \in Nat /\ l \in Nat /\ ~(k < l) /\ ~(l < k)
      <4> HIDE DEF rank
      <4> QED BY <1>4, <2>1
    <3> QED BY <3>1
  <2> HIDE DEF rank, ranks
  <2> QED BY <1>3, <2>1 DEF Injection, IsInjective
<1>6. IsFiniteSet(ranks) /\ Cardinality(ranks) = Cardinality(S)
  <2>1. 0 \in Int /\ Cardinality(S) - 1 \in Int
        BY <1>1
  <2> QED BY <1>1, <2>1, FS_Interval
<1>7. rank \in Surjection(S, ranks)
  <2> HIDE DEF rank, ranks
  <2> QED BY <1>5, <1>6, FS_Injection
<1>8. n - 1 \in ranks
      BY <1>1
<1>9. PICK k \in S : rank[k] = n - 1
  <2> HIDE DEF rank, ranks
  <2> QED BY <1>7, <1>8 DEF Surjection
<1> QED BY <1>9

(* The arguments of a line are words.                                      *)
LEMMA ArgumentsAreWords ==
    ASSUME NEW text \in Seq(Chars), NEW end \in Nat
    PROVE  ArgumentsOf(text, end) \in Seq(Seq(Chars))
<1>1. PICK word : word = WordAt(text, 1)
      OBVIOUS
<1>2. word \in Seq(Chars) /\ Len(word) \in Nat
      BY <1>1, WordIsWord, LenProperties
<1>3. PICK first \in Nat : first = Len(word) + 2
      BY <1>2
<1>4. PICK starts :
          starts = {k \in first .. end : k = first \/ text[k - 1] = Blank}
      OBVIOUS
<1>5. /\ starts \in SUBSET (first .. end) /\ starts \in SUBSET Nat
      /\ \A k \in starts : k # 0
      BY <1>2, <1>3, <1>4
<1>6. IsFiniteSet(starts) /\ Cardinality(starts) \in Nat
  <2>1. IsFiniteSet(first .. end)
        BY FS_Interval
  <2>2. IsFiniteSet(starts)
        BY <1>5, <2>1, FS_Subset
  <2> QED BY <2>2, FS_CardinalityType
<1> DEFINE Before(k) == {earlier \in starts : earlier < k}
           Start(n) == CHOOSE k \in starts : Cardinality(Before(k)) = n - 1
<1>7. ASSUME NEW n \in 1 .. Cardinality(starts)
      PROVE  WordAt(text, Start(n)) \in Seq(Chars)
  <2>1. \E k \in starts : Cardinality(Before(k)) = n - 1
        BY <1>5, <1>6, EveryRankIsTaken
  <2>2. Start(n) \in starts
        BY <2>1
  <2>3. Start(n) \in Nat \ {0}
        BY <1>5, <2>2
  <2> HIDE DEF Start
  <2> QED BY <2>3, WordIsWord
<1>8. [n \in 1 .. Cardinality(starts) |-> WordAt(text, Start(n))]
          \in Seq(Seq(Chars))
  <2> HIDE DEF Start
  <2> QED BY <1>6, <1>7
<1> QED BY <1>1, <1>3, <1>4, <1>8 DEF ArgumentsOf
-----------------------------------------------------------------------------
(***************************************************************************)
(* The invariant.                                                          *)
(***************************************************************************)
(* The fields of a COMMAND_STRUCT.                                         *)
Fields ==
    [text : Seq(Chars), CurrentPos : Nat, EndPos : Nat,
     args : Seq(Seq(Chars))]

(* A slot of the history: the cursor is on the line, which ends where its  *)
(* text ends or, in a slot that is used again, at 0, and its words fit.    *)
CommandStructs ==
    {cmd \in Fields :
        /\ cmd.CurrentPos \in 0 .. cmd.EndPos
        /\ cmd.EndPos \in {0, Len(cmd.text)}
        /\ Len(cmd.text) <= MaxLine
        /\ RowsFit(cmd.args)}

Typed ==
    /\ StateMachine \in STATES
    /\ commands \in [Slots -> CommandStructs]
    /\ commandIdx \in -1 .. MaxCommands - 1
    /\ NumberOfCommands \in Nat /\ NumberOfCommands <= MaxEntered
    /\ commandIdx <= NumberOfCommands
    /\ shown \in Seq(Chars)
    /\ at \in PLACES /\ wait \in Nat

(* The states of the state machine that are possible at a place.           *)
StatesAt(place) ==
    CASE place \in {"NEW_COMMAND", "begun"} -> {"NEW_COMMAND"}
      [] place = "WAITING_FOR_COMMAND" ->
             {"WAITING_FOR_COMMAND", "PROCESS_COMMAND", "EXIT_COMMAND"}
      [] place \in {"PROCESS_COMMAND", "processed"} ->
             {"PROCESS_COMMAND", "EXIT_COMMAND"}
      [] place \in {"EXECUTE_COMMAND", "loop", "executed"} ->
             {"EXECUTE_COMMAND", "EXIT_COMMAND"}
      [] place = "EXIT_COMMAND" -> {"EXIT_COMMAND"}
      [] OTHER -> STATES

Control ==
    /\ StateMachine \in StatesAt(at)
    /\ back \in {"switch", "loop", "executed"}
    /\ at = "asleep" =>
           StateMachine \in
               StatesAt(IF back = "switch" THEN "WAITING_FOR_COMMAND" ELSE back)

(* A line that has been entered leaves room for one more command; before   *)
(* the first prompt there is no current command.                           *)
RoomForCommand ==
    /\ \/ StateMachine = "WAITING_FOR_COMMAND"
       \/ at \in {"begun", "corrupted"}
       \/ NumberOfCommands < MaxEntered
    /\ commandIdx = -1 =>
           StateMachine = "NEW_COMMAND" /\ at \in {"switch", "NEW_COMMAND"}

(* The line printed last is that of the current command, in every state.   *)
ShownIsCurrent == commandIdx # -1 => shown = Line

CInv == Typed /\ Control /\ RoomForCommand /\ ShownIsCurrent

(* Before the first prompt there is no command and nothing is shown.       *)
LEMMA InitCInv == Init => CInv
<1> SUFFICES ASSUME Init PROVE CInv
    OBVIOUS
<1>1. EmptyCommand \in CommandStructs
  <2>1. <<>> \in Seq(Chars) /\ <<>> \in Seq(Seq(Chars)) /\ Len(<<>>) = 0
        OBVIOUS
  <2>2. RowsFit(<<>>)
        BY <2>1, ConsoleAssumption DEF RowsFit
  <2> QED BY <2>1, <2>2, ConsoleAssumption
          DEF EmptyCommand, CommandStructs, Fields
<1>2. Typed
  <2>1. <<>> \in Seq(Chars) /\ -1 \in -1 .. MaxCommands - 1
        BY ConsoleAssumption
  <2> QED BY <1>1, <2>1, ConsoleAssumption DEF Init, Typed, STATES, PLACES
<1>3. Control /\ RoomForCommand /\ ShownIsCurrent
      BY ConsoleAssumption
         DEF Init, Control, RoomForCommand, ShownIsCurrent, StatesAt, STATES
<1> QED BY <1>2, <1>3 DEF CInv

-----------------------------------------------------------------------------
(***************************************************************************)
(* Keys.                                                                   *)
(***************************************************************************)
(* While the console waits for a command there is a current command.       *)
LEMMA CurrentCommand ==
    ASSUME CInv, StateMachine # "NEW_COMMAND" \/ at = "begun"
    PROVE  commandIdx \in Slots /\ Ccommand \in CommandStructs
<1>1. commandIdx \in Slots
      BY ConsoleAssumption DEF CInv, Typed, RoomForCommand, Slots
<1> QED BY <1>1 DEF CInv, Typed, Ccommand

(* Editing puts the new line both in the history and on the screen.        *)
LEMMA EditKeeps ==
    ASSUME CInv, StateMachine = "WAITING_FOR_COMMAND",
           NEW cmd \in CommandStructs, Edit(cmd), UNCHANGED thread
    PROVE  CInv'
<1>1. commandIdx \in Slots
      BY CurrentCommand
<1>2. /\ commands' = [commands EXCEPT ![commandIdx] = cmd]
      /\ shown' = cmd.text
      /\ UNCHANGED <<StateMachine, commandIdx, NumberOfCommands, at, wait, back>>
      BY DEF Edit, thread
<1>3. commands' \in [Slots -> CommandStructs] /\ Line' = cmd.text
      BY <1>1, <1>2 DEF CInv, Typed, Ccommand, Line
<1>4. cmd.text \in Seq(Chars)
      BY DEF CommandStructs, Fields
<1> QED BY <1>2, <1>3, <1>4
        DEF CInv, Typed, Control, RoomForCommand, ShownIsCurrent

(* A character is written behind or into the line, and never leaves a gap. *)
LEMMA WriteKeeps ==
    ASSUME CInv, StateMachine = "WAITING_FOR_COMMAND", NEW c \in Chars,
           WriteIntoComand(c), UNCHANGED thread
    PROVE  CInv'
<1>1. PICK cmd \in CommandStructs : cmd = Ccommand
      BY CurrentCommand
<1>2. PICK text : text =
          IF cmd.CurrentPos < cmd.EndPos
          THEN insertChar(c, cmd.text, cmd.CurrentPos)
          ELSE SubSeq(cmd.text, 1, cmd.CurrentPos) \o <<c>>
                 \o SubSeq(cmd.text, cmd.CurrentPos + 2, Len(cmd.text))
      OBVIOUS
<1>3. PICK new : new = [cmd EXCEPT !.text = text, !.CurrentPos = @ + 1,
                                   !.EndPos = Len(text)]
      OBVIOUS
<1>4. Edit(new) /\ Len(text) <= MaxLine
      BY <1>1, <1>2, <1>3 DEF WriteIntoComand
<1>5. PICK end \in Nat : end = Len(cmd.text)
      BY LenProperties DEF CommandStructs, Fields
<1>6. /\ cmd.text \in Seq(Chars) /\ cmd.args \in Seq(Seq(Chars))
      /\ RowsFit(cmd.args) /\ end <= MaxLine
      /\ cmd.CurrentPos \in Nat /\ cmd.EndPos \in Nat
      /\ cmd.CurrentPos <= cmd.EndPos /\ cmd.EndPos <= end
      BY <1>5 DEF CommandStructs, Fields
<1>7. cmd.CurrentPos \in 0 .. Len(cmd.text)
      BY <1>5, <1>6
<1>8. text \in Seq(Chars) /\ Len(text) \in Nat /\ cmd.CurrentPos + 1 <= Len(text)
  <2>1. CASE cmd.CurrentPos < cmd.EndPos
    <3>1. text \in Seq(Chars) /\ Len(text) = end + 1
          BY <1>2, <1>5, <1>6, <1>7, <2>1, InsertedLine
    <3> QED BY <1>6, <3>1
  <2>2. CASE ~(cmd.CurrentPos < cmd.EndPos)
    <3>1. text \in Seq(Chars) /\ Len(text) >= cmd.CurrentPos + 1
          BY <1>2, <1>6, <1>7, <2>2, OverwrittenLine
    <3>2. Len(text) \in Nat
          BY <3>1, LenProperties
    <3> QED BY <1>6, <3>1, <3>2
  <2> QED BY <2>1, <2>2
<1>9. /\ new.text = text /\ new.CurrentPos = cmd.CurrentPos + 1
      /\ new.EndPos = Len(text) /\ new.args = cmd.args
      /\ new \in Fields
  <2>1. cmd \in Fields
        BY DEF CommandStructs
  <2>2. PICK pos \in Nat : pos = cmd.CurrentPos + 1
        BY <1>6
  <2>3. PICK len \in Nat : len = Len(text)
        BY <1>8
  <2>4. new = [cmd EXCEPT !.text = text, !.CurrentPos = pos, !.EndPos = len]
        BY <1>3, <2>2, <2>3
  <2>5. new.text = text /\ new.CurrentPos = pos
        BY <1>8, <2>1, <2>4 DEF Fields
  <2>6. new.EndPos = len /\ new.args = cmd.args
        BY <1>8, <2>1, <2>4 DEF Fields
  <2>7. new \in Fields
        BY <1>8, <2>1, <2>4 DEF Fields
  <2> QED BY <2>2, <2>3, <2>5, <2>6, <2>7
<1>10. new \in CommandStructs
      BY <1>4, <1>6, <1>8, <1>9 DEF CommandStructs, Fields
<1> QED BY <1>4, <1>10, EditKeeps

(* Backspace takes away a character that is there.                         *)
LEMMA BackSpaceKeeps ==
    ASSUME CInv, StateMachine = "WAITING_FOR_COMMAND", BackSpace,
           UNCHANGED thread
    PROVE  CInv'
<1>1. PICK cmd \in CommandStructs : cmd = Ccommand
      BY CurrentCommand
<1>2. PICK text : text = removeChar(cmd.text, cmd.CurrentPos)
      OBVIOUS
<1>3. PICK new : new = [cmd EXCEPT !.text = text, !.CurrentPos = @ - 1,
                                   !.EndPos = @ - 1]
      OBVIOUS
<1>4. Edit(new) /\ cmd.CurrentPos > 0
      BY <1>1, <1>2, <1>3 DEF BackSpace
<1>5. PICK end \in Nat : end = Len(cmd.text)
      BY LenProperties DEF CommandStructs, Fields
<1>6. /\ cmd.text \in Seq(Chars) /\ cmd.args \in Seq(Seq(Chars))
      /\ RowsFit(cmd.args) /\ end <= MaxLine
      /\ cmd.CurrentPos \in 1 .. end /\ cmd.EndPos = end
      BY <1>4, <1>5 DEF CommandStructs, Fields
<1>7. text \in Seq(Chars) /\ Len(text) = end - 1
      BY <1>2, <1>5, <1>6, RemovedLine
<1>8. /\ new.text = text /\ new.CurrentPos = cmd.CurrentPos - 1
      /\ new.EndPos = end - 1 /\ new.args = cmd.args
      /\ new \in Fields
  <2>1. cmd \in Fields
        BY DEF CommandStructs
  <2>2. PICK pos \in Nat : pos = cmd.CurrentPos - 1
        BY <1>5, <1>6
  <2>3. PICK len \in Nat : len = end - 1
        BY <1>4, <1>6
  <2>4. new = [cmd EXCEPT !.text = text, !.CurrentPos = pos, !.EndPos = len]
        BY <1>3, <1>6, <2>2, <2>3
  <2>5. new.text = text /\ new.CurrentPos = pos
        BY <1>7, <2>1, <2>4 DEF Fields
  <2>6. new.EndPos = len /\ new.args = cmd.args
        BY <1>7, <2>1, <2>4 DEF Fields
  <2>7. new \in Fields
        BY <1>7, <2>1, <2>4 DEF Fields
  <2> QED BY <2>2, <2>3, <2>5, <2>6, <2>7
<1>9. new \in CommandStructs
  <2>1. Len(new.text) <= MaxLine
        BY <1>5, <1>6, <1>7, <1>8, ConsoleAssumption
  <2> QED BY <1>5, <1>6, <1>7, <1>8, <2>1 DEF CommandStructs, Fields
<1> QED BY <1>4, <1>9, EditKeeps

(* So does Delete.                                                         *)
LEMMA DeleteKeeps ==
    ASSUME CInv, StateMachine = "WAITING_FOR_COMMAND", Delete,
           UNCHANGED thread
    PROVE  CInv'
<1>1. PICK cmd \in CommandStructs : cmd = Ccommand
      BY CurrentCommand
<1>2. PICK text : text = removeChar(cmd.text, cmd.CurrentPos + 1)
      OBVIOUS
<1>3. PICK new : new = [cmd EXCEPT !.text = text, !.EndPos = @ - 1]
      OBVIOUS
<1>4. Edit(new) /\ cmd.CurrentPos < cmd.EndPos
      BY <1>1, <1>2, <1>3 DEF Delete
<1>5. PICK end \in Nat : end = Len(cmd.text)
      BY LenProperties DEF CommandStructs, Fields
<1>6. /\ cmd.text \in Seq(Chars) /\ cmd.args \in Seq(Seq(Chars))
      /\ RowsFit(cmd.args) /\ end <= MaxLine
      /\ cmd.CurrentPos \in 0 .. end - 1 /\ cmd.EndPos = end
      BY <1>4, <1>5 DEF CommandStructs, Fields
<1>7. text \in Seq(Chars) /\ Len(text) = end - 1
  <2>1. cmd.CurrentPos + 1 \in 1 .. Len(cmd.text)
        BY <1>5, <1>6
  <2> QED BY <1>2, <1>5, <1>6, <2>1, RemovedLine
<1>8. /\ new.text = text /\ new.CurrentPos = cmd.CurrentPos
      /\ new.EndPos = end - 1 /\ new.args = cmd.args
      /\ new \in Fields
  <2>1. cmd \in Fields
        BY DEF CommandStructs
  <2>2. PICK pos \in Nat : pos = cmd.CurrentPos
        BY <1>5, <1>6
  <2>3. PICK len \in Nat : len = end - 1
        BY <1>4, <1>6
  <2>4. new = [cmd EXCEPT !.text = text, !.CurrentPos = pos, !.EndPos = len]
        BY <1>3, <1>6, <2>1, <2>2, <2>3 DEF Fields
  <2>5. new.text = text /\ new.CurrentPos = pos
        BY <1>7, <2>1, <2>4 DEF Fields
  <2>6. new.EndPos = len /\ new.args = cmd.args
        BY <1>7, <2>1, <2>4 DEF Fields
  <2>7. new \in Fields
        BY <1>7, <2>1, <2>4 DEF Fields
  <2> QED BY <2>2, <2>3, <2>5, <2>6, <2>7
<1>9. new \in CommandStructs
  <2>1. Len(new.text) <= MaxLine
        BY <1>5, <1>6, <1>7, <1>8, ConsoleAssumption
  <2> QED BY <1>5, <1>6, <1>7, <1>8, <2>1 DEF CommandStructs, Fields
<1> QED BY <1>4, <1>9, EditKeeps

(* The cursor stays on the line.                                           *)
LEMMA MoveCursorKeeps ==
    ASSUME CInv, StateMachine = "WAITING_FOR_COMMAND", NEW by \in Int,
           MoveCursor(by), UNCHANGED thread
    PROVE  CInv'
<1>1. PICK cmd \in CommandStructs : cmd = Ccommand
      BY CurrentCommand
<1>2. PICK pos : pos = cmd.CurrentPos + by
      OBVIOUS
<1>3. PICK new : new = [cmd EXCEPT !.CurrentPos = pos]
      OBVIOUS
<1>4. commandIdx \in Slots /\ commands \in [Slots -> CommandStructs]
      BY CurrentCommand DEF CInv, Typed
<1>5. /\ pos \in 0 .. cmd.EndPos
      /\ commands' = [commands EXCEPT ![commandIdx].CurrentPos = pos]
      /\ UNCHANGED <<StateMachine, commandIdx, NumberOfCommands, shown, at,
                     wait, back>>
      BY <1>1, <1>2 DEF MoveCursor, thread
<1>6. commands' = [commands EXCEPT ![commandIdx] = new]
      BY <1>1, <1>3, <1>4, <1>5 DEF Ccommand
<1>7. /\ new.text = cmd.text /\ new.CurrentPos = pos
      /\ new.EndPos = cmd.EndPos /\ new.args = cmd.args
      /\ new \in Fields
  <2>1. cmd \in Fields
        BY DEF CommandStructs
  <2>2. pos \in Nat
        <3>1. cmd.EndPos \in Nat
              BY <2>1 DEF Fields
        <3> QED BY <1>5, <3>1
  <2>3. new = [text |-> cmd.text, CurrentPos |-> pos, EndPos |-> cmd.EndPos,
               args |-> cmd.args]
        BY <1>3, <2>1 DEF Fields
  <2> QED BY <2>1, <2>2, <2>3 DEF Fields
<1>8. new \in CommandStructs
      BY <1>5, <1>7 DEF CommandStructs, Fields
<1>9. commands' \in [Slots -> CommandStructs] /\ Line' = Line
      BY <1>1, <1>4, <1>5, <1>6, <1>7, <1>8 DEF Ccommand, Line
<1> QED BY <1>5, <1>9 DEF CInv, Typed, Control, RoomForCommand, ShownIsCurrent

(* A move in the history shows the command that it moves to.               *)
LEMMA HistoryKeeps ==
    ASSUME CInv, StateMachine = "WAITING_FOR_COMMAND", Up \/ Down,
           UNCHANGED thread
    PROVE  CInv'
<1>1. /\ commandIdx \in Slots /\ commands \in [Slots -> CommandStructs]
      /\ NumberOfCommands \in Nat /\ commandIdx <= NumberOfCommands
      BY CurrentCommand DEF CInv, Typed
<1>2. /\ commandIdx' \in Slots /\ commandIdx' <= NumberOfCommands
      /\ shown' = commands[commandIdx'].text
      /\ UNCHANGED <<StateMachine, commands, NumberOfCommands, at, wait, back>>
  <2>1. CASE Up
        BY <1>1, <2>1, ConsoleAssumption DEF Up, prevCommand, Slots, thread
  <2>2. CASE Down
        BY <1>1, <2>2, ConsoleAssumption DEF Down, nextCommand, Slots, thread
  <2> QED BY <2>1, <2>2
<1>3. commandIdx' \in -1 .. MaxCommands - 1 /\ commandIdx' # -1
      BY <1>2, ConsoleAssumption DEF Slots
<1>4. shown' \in Seq(Chars) /\ Line' = shown'
  <2>1. commands[commandIdx'] \in Fields
        BY <1>1, <1>2 DEF CommandStructs
  <2> QED BY <1>2, <2>1 DEF Fields, Line, Ccommand
<1> QED BY <1>2, <1>3, <1>4
        DEF CInv, Typed, Control, RoomForCommand, ShownIsCurrent

(* Every key that means something to the line.                             *)
LEMMA KeyKeeps == CInv /\ KeyForTheLine => CInv'
<1> SUFFICES ASSUME CInv, KeyForTheLine PROVE CInv'
    OBVIOUS
<1>1. StateMachine = "WAITING_FOR_COMMAND" /\ ~Stopped /\ UNCHANGED thread
      BY DEF KeyForTheLine
<1>2. ASSUME NEW c \in Chars, WriteIntoComand(c) PROVE CInv'
      BY <1>1, <1>2, WriteKeeps
<1>3. CASE BackSpace
      BY <1>1, <1>3, BackSpaceKeeps
<1>4. CASE Delete
      BY <1>1, <1>4, DeleteKeeps
<1>5. CASE Left \/ Right
  <2>1. CASE Left
        BY <1>1, <2>1, MoveCursorKeeps DEF Left
  <2>2. CASE Right
        BY <1>1, <2>2, MoveCursorKeeps DEF Right
  <2> QED BY <1>5, <2>1, <2>2
<1>6. CASE Up \/ Down
      BY <1>1, <1>6, HistoryKeeps
<1>7. CASE Enter
  <2>1. /\ StateMachine' = "PROCESS_COMMAND" /\ NumberOfCommands < MaxEntered
        /\ UNCHANGED <<commands, commandIdx, NumberOfCommands, shown,
                       at, wait, back>>
        BY <1>1, <1>7 DEF Enter, thread
  <2>2. Typed'
        BY <2>1 DEF CInv, Typed, STATES
  <2>3. Control'
        BY <1>1, <2>1 DEF CInv, Control, StatesAt, STATES
  <2>4. RoomForCommand'
        BY <1>1, <2>1 DEF CInv, RoomForCommand
  <2>5. ShownIsCurrent'
        BY <1>1, <2>1 DEF CInv, ShownIsCurrent, Line, Ccommand
  <2> QED BY <2>2, <2>3, <2>4, <2>5 DEF CInv
<1> QED BY <1>2, <1>3, <1>4, <1>5, <1>6, <1>7 DEF KeyForTheLine

(* Ctrl-C, a key that leaves the array of commands, and the timer.         *)
LEMMA InterruptKeeps == CInv /\ (Interrupt \/ Tick) => CInv'
<1> SUFFICES ASSUME CInv, Interrupt \/ Tick PROVE CInv'
    OBVIOUS
<1>1. CASE KeyForTheLine
      BY <1>1, KeyKeeps
<1>2. CASE CtrlC
  <2>1. /\ StateMachine # "NEW_COMMAND" /\ StateMachine' = "EXIT_COMMAND"
        /\ StateMachine = "WAITING_FOR_COMMAND" => NumberOfCommands < MaxEntered
        /\ at \notin {"halted", "corrupted"}
        /\ UNCHANGED <<commands, commandIdx, NumberOfCommands, shown,
                       at, wait, back>>
        BY <1>2 DEF CtrlC, Stopped, thread
  <2>2. Typed'
        BY <2>1 DEF CInv, Typed, STATES
  <2>3. Control'
        BY <2>1 DEF CInv, Typed, Control, StatesAt, STATES, PLACES
  <2>4. RoomForCommand'
        BY <2>1 DEF CInv, RoomForCommand
  <2>5. ShownIsCurrent'
        BY <2>1 DEF CInv, ShownIsCurrent, Line, Ccommand
  <2> QED BY <2>2, <2>3, <2>4, <2>5 DEF CInv
<1>3. CASE DownOutOfHistory
  <2>1. /\ StateMachine = "WAITING_FOR_COMMAND" /\ at' = "corrupted"
        /\ UNCHANGED <<StateMachine, commands, commandIdx, NumberOfCommands,
                       shown, wait, back>>
        BY <1>3 DEF DownOutOfHistory, console
  <2>2. Typed' /\ Control'
        BY <2>1 DEF CInv, Typed, Control, StatesAt, STATES, PLACES
  <2>3. RoomForCommand'
        BY <2>1 DEF CInv, RoomForCommand
  <2>4. ShownIsCurrent'
        BY <2>1 DEF CInv, ShownIsCurrent, Line, Ccommand
  <2> QED BY <2>2, <2>3, <2>4 DEF CInv
<1>4. CASE Tick
  <2>1. /\ wait > 0 /\ wait' = wait - 1
        /\ UNCHANGED <<StateMachine, commands, commandIdx, NumberOfCommands,
                       shown, at, back>>
        BY <1>4 DEF Tick, console
  <2>2. Typed'
        BY <2>1 DEF CInv, Typed
  <2>3. Control' /\ RoomForCommand'
        BY <2>1 DEF CInv, Control, RoomForCommand
  <2>4. ShownIsCurrent'
        BY <2>1 DEF CInv, ShownIsCurrent, Line, Ccommand
  <2> QED BY <2>2, <2>3, <2>4 DEF CInv
<1> QED BY <1>1, <1>2, <1>3, <1>4 DEF Interrupt

-----------------------------------------------------------------------------
(***************************************************************************)
(* The thread.                                                             *)
(***************************************************************************)
(* The steps that do not touch the history: it is enough to know where     *)
(* they go and what they leave in the state machine.                       *)
LEMMA StepKeeps ==
    ASSUME CInv,
           UNCHANGED <<commands, commandIdx, NumberOfCommands, shown>>,
           StateMachine' \in STATES, at' \in PLACES, wait' \in Nat,
           Control', RoomForCommand'
    PROVE  CInv'
<1>1. Typed'
      BY DEF CInv, Typed
<1>2. ShownIsCurrent'
      BY DEF CInv, ShownIsCurrent, Line, Ccommand
<1> QED BY <1>1, <1>2 DEF CInv

(* The state is read, and the switch goes to its case; a sleep ends.       *)
LEMMA GoingOnKeeps == CInv /\ (WakeUp \/ ReadState) => CInv'
<1> SUFFICES ASSUME CInv, WakeUp \/ ReadState PROVE CInv'
    OBVIOUS
<1>1. CASE WakeUp
  <2>1. /\ at = "asleep" /\ at' = back /\ back \in {"switch", "loop", "executed"}
        /\ UNCHANGED <<StateMachine, commands, commandIdx, NumberOfCommands,
                       shown, wait, back>>
        BY <1>1 DEF WakeUp, console, CInv, Control
  <2>2. Control'
        BY <2>1 DEF CInv, Typed, Control, StatesAt, STATES
  <2>3. RoomForCommand'
        BY <2>1 DEF CInv, RoomForCommand
  <2>4. StateMachine' \in STATES /\ at' \in PLACES /\ wait' \in Nat
        BY <2>1 DEF CInv, Typed, PLACES
  <2> QED BY <2>1, <2>2, <2>3, <2>4, StepKeeps
<1>2. CASE ReadState
  <2>1. /\ at = "switch" /\ at' = StateMachine
        /\ UNCHANGED <<StateMachine, commands, commandIdx, NumberOfCommands,
                       shown, wait, back>>
        BY <1>2 DEF ReadState, Goto, console
  <2>2. Control'
        BY <2>1 DEF CInv, Typed, Control, StatesAt, STATES
  <2>3. RoomForCommand'
        BY <2>1 DEF CInv, RoomForCommand
  <2>4. StateMachine' \in STATES /\ at' \in PLACES /\ wait' \in Nat
        BY <2>1 DEF CInv, Typed, PLACES
  <2> QED BY <2>1, <2>2, <2>3, <2>4, StepKeeps
<1> QED BY <1>1, <1>2

(* A new command is taken from a slot that has a text already; it is shown.*)
LEMMA NewCommandKeeps == CInv /\ NewCommand => CInv'
<1> SUFFICES ASSUME CInv, NewCommand PROVE CInv'
    OBVIOUS
<1>1. /\ at = "NEW_COMMAND" /\ StateMachine = "NEW_COMMAND"
      /\ NumberOfCommands \in Nat /\ NumberOfCommands < MaxEntered
      /\ UNCHANGED <<StateMachine, wait, back>>
      BY DEF NewCommand, Goto, CInv, Typed, Control, StatesAt, RoomForCommand
<1>2. CASE commandIdx + 1 \in Slots
  <2>1. PICK idx \in Slots : idx = commandIdx + 1
        BY <1>2
  <2>2. PICK old \in CommandStructs : old = commands[idx]
        BY <2>1 DEF CInv, Typed
  <2>3. PICK new : new = [old EXCEPT !.CurrentPos = 0, !.EndPos = 0, !.args = <<>>]
        OBVIOUS
  <2>4. /\ new \in Fields /\ new.text = old.text /\ new.CurrentPos = 0
        /\ new.EndPos = 0 /\ new.args = <<>>
    <3>1. old \in Fields /\ <<>> \in Seq(Seq(Chars))
          BY DEF CommandStructs
    <3> QED BY <2>3, <3>1 DEF Fields
  <2>5. new \in CommandStructs
    <3>1. Len(<<>>) = 0
          OBVIOUS
    <3>2. RowsFit(<<>>)
          BY <3>1, ConsoleAssumption DEF RowsFit
    <3> QED BY <2>4, <3>2, ConsoleAssumption DEF CommandStructs
  <2>6. commands \in [Slots -> CommandStructs]
        BY DEF CInv, Typed
  <2>7. /\ commandIdx' = idx /\ NumberOfCommands' = NumberOfCommands + 1
        /\ shown' = old.text /\ at' = "begun"
        /\ commands' = [commands EXCEPT ![idx].CurrentPos = 0,
                                        ![idx].EndPos = 0,
                                        ![idx].args = <<>>]
        BY <1>2, <2>1, <2>2 DEF NewCommand, Goto
  <2>8. commands' = [commands EXCEPT ![idx] = new]
        BY <2>2, <2>3, <2>6, <2>7
  <2>9. commands' \in [Slots -> CommandStructs] /\ Line' = new.text
        BY <2>1, <2>5, <2>6, <2>7, <2>8 DEF Line, Ccommand
  <2>10. shown' = Line' /\ shown' \in Seq(Chars)
        BY <2>4, <2>7, <2>9 DEF Fields
  <2>11. /\ commandIdx' \in -1 .. MaxCommands - 1 /\ commandIdx' # -1
         /\ commandIdx' <= NumberOfCommands'
        BY <2>1, <2>7, ConsoleAssumption DEF Slots, CInv, Typed
  <2>12. Typed'
        BY <1>1, <2>7, <2>9, <2>10, <2>11, ConsoleAssumption
           DEF CInv, Typed, PLACES
  <2>13. Control'
        BY <1>1, <2>7 DEF CInv, Control, StatesAt
  <2> QED BY <2>7, <2>10, <2>11, <2>12, <2>13
          DEF CInv, RoomForCommand, ShownIsCurrent
<1>3. CASE commandIdx + 1 \notin Slots
  <2>1. /\ at' = "corrupted"
        /\ UNCHANGED <<StateMachine, commands, commandIdx, NumberOfCommands,
                       shown, wait, back>>
        BY <1>3 DEF NewCommand, Goto
  <2>2. commandIdx # -1
        BY <1>3, ConsoleAssumption DEF Slots
  <2>3. Control'
        BY <2>1 DEF CInv, Typed, Control, StatesAt, STATES
  <2>4. RoomForCommand'
        BY <2>1, <2>2 DEF RoomForCommand
  <2>5. StateMachine' \in STATES /\ at' \in PLACES /\ wait' \in Nat
        BY <2>1 DEF CInv, Typed, PLACES
  <2> QED BY <2>1, <2>3, <2>4, <2>5, StepKeeps
<1> QED BY <1>2, <1>3

(* The arguments on the line are added to those of the command, whose text *)
(* and cursor stay what they are.                                          *)
LEMMA ProcessCommandKeeps == CInv /\ ProcessCommand => CInv' /\ Line' = Line
<1> SUFFICES ASSUME CInv, ProcessCommand PROVE CInv' /\ Line' = Line
    OBVIOUS
<1>1. PICK cmd \in CommandStructs : cmd = Ccommand
      BY CurrentCommand DEF ProcessCommand, CInv, Control, StatesAt
<1>2. PICK args : args = cmd.args \o ArgumentsOf(cmd.text, cmd.EndPos)
      OBVIOUS
<1>3. /\ at = "PROCESS_COMMAND" /\ commandIdx \in Slots
      /\ StateMachine \in {"PROCESS_COMMAND", "EXIT_COMMAND"}
      /\ commands \in [Slots -> CommandStructs]
      /\ UNCHANGED <<StateMachine, commandIdx, NumberOfCommands, shown,
                     wait, back>>
  <2>1. at = "PROCESS_COMMAND"
        /\ UNCHANGED <<StateMachine, commandIdx, NumberOfCommands, shown,
                       wait, back>>
        BY DEF ProcessCommand, Goto
  <2>2. StateMachine \in {"PROCESS_COMMAND", "EXIT_COMMAND"}
        BY <2>1 DEF CInv, Control, StatesAt
  <2> QED BY <2>1, <2>2, CurrentCommand DEF CInv, Typed
<1>4. CASE Len(CommandWord(cmd)) <= MaxWord /\ RowsFit(args)
  <2>1. /\ commands' = [commands EXCEPT ![commandIdx].args = args]
        /\ at' = "processed"
        BY <1>1, <1>2, <1>4 DEF ProcessCommand, Goto
  <2>2. PICK new : new = [cmd EXCEPT !.args = args]
        OBVIOUS
  <2>3. cmd \in Fields
        BY DEF CommandStructs
  <2>4. args \in Seq(Seq(Chars))
    <3>1. cmd.text \in Seq(Chars) /\ cmd.EndPos \in Nat
          /\ cmd.args \in Seq(Seq(Chars))
          BY <2>3 DEF Fields
    <3>2. ArgumentsOf(cmd.text, cmd.EndPos) \in Seq(Seq(Chars))
          BY <3>1, ArgumentsAreWords
    <3> QED BY <1>2, <3>1, <3>2, ConcatProperties
  <2>5. /\ new \in Fields /\ new.text = cmd.text
        /\ new.CurrentPos = cmd.CurrentPos /\ new.EndPos = cmd.EndPos
        /\ new.args = args
        BY <2>2, <2>3, <2>4 DEF Fields
  <2>6. new \in CommandStructs
        BY <1>4, <2>5 DEF CommandStructs
  <2>7. commands' = [commands EXCEPT ![commandIdx] = new]
        BY <1>1, <1>3, <2>1, <2>2 DEF Ccommand
  <2>8. commands' \in [Slots -> CommandStructs] /\ Line' = Line
        BY <1>1, <1>3, <2>5, <2>6, <2>7 DEF Line, Ccommand
  <2>9. Typed'
        BY <1>3, <2>1, <2>8 DEF CInv, Typed, PLACES
  <2>10. Control'
        BY <1>3, <2>1 DEF CInv, Control, StatesAt
  <2>11. RoomForCommand' /\ ShownIsCurrent'
        BY <1>3, <2>1, <2>8 DEF CInv, RoomForCommand, ShownIsCurrent
  <2> QED BY <2>8, <2>9, <2>10, <2>11 DEF CInv
<1>5. CASE ~(Len(CommandWord(cmd)) <= MaxWord /\ RowsFit(args))
  <2>1. at' = "corrupted" /\ UNCHANGED commands
        BY <1>1, <1>2, <1>5 DEF ProcessCommand, Goto
  <2>2. Control' /\ RoomForCommand'
    <3>1. commandIdx # -1
          BY <1>3 DEF Slots
    <3> QED BY <1>3, <2>1, <3>1
            DEF CInv, Control, RoomForCommand, StatesAt, STATES
  <2>3. StateMachine' \in STATES /\ at' \in PLACES /\ wait' \in Nat
        BY <1>3, <2>1 DEF CInv, Typed, PLACES
  <2>4. Line' = Line
        BY <1>3, <2>1 DEF Line, Ccommand
  <2> QED BY <1>3, <2>1, <2>2, <2>3, <2>4, StepKeeps
<1> QED BY <1>4, <1>5

(* A command is executed, and in the end the state is written.             *)
LEMMA ExecuteKeeps == CInv /\ (Execute \/ Loop) => CInv'
<1> SUFFICES ASSUME CInv, Execute \/ Loop PROVE CInv'
    OBVIOUS
<1>1. /\ at \in {"EXECUTE_COMMAND", "loop"}
      /\ UNCHANGED <<StateMachine, commands, commandIdx, NumberOfCommands, shown>>
      BY DEF Execute, ExecuteContinuous, ExecuteSleep, ExecuteFault,
             ExecuteOther, ExecuteUsage, ExecuteCommand, Loop, console
<1>2. StateMachine \in {"EXECUTE_COMMAND", "EXIT_COMMAND"}
      BY <1>1 DEF CInv, Control, StatesAt
<1>3. \/ at' \in {"loop", "executed", "halted"} /\ UNCHANGED <<wait, back>>
      \/ at' = "asleep" /\ back' \in {"loop", "executed"} /\ wait' \in Nat
  <2>1. CASE Loop
        BY <2>1, ConsoleAssumption DEF Loop, Goto, SleepThen
  <2>2. CASE ExecuteContinuous
        BY <2>2 DEF ExecuteContinuous, Goto
  <2>3. CASE ExecuteSleep
    <3>1. CASE argc(Ccommand) = Needed
      <4>1. PICK number \in 0 .. MaxNumber :
                \/ SleepThen(mSleepTicks(number), "executed")
                \/ SleepThen(number * MILLIS, "executed")
            BY <2>3, <3>1 DEF ExecuteSleep
      <4>2. number \in Nat /\ TIMER_FREQ \in Nat /\ MILLIS \in Nat \ {0}
            BY ConsoleAssumption
      <4>3. number * MILLIS \in Nat /\ TIMER_FREQ * number \in Nat
            BY <4>2
      <4>4. mSleepTicks(number) \in Nat
            BY <4>2, <4>3 DEF mSleepTicks
      <4> QED BY <4>1, <4>3, <4>4 DEF SleepThen
    <3>2. CASE argc(Ccommand) # Needed
          BY <2>3, <3>2 DEF ExecuteSleep, Goto
    <3> QED BY <3>1, <3>2
  <2>4. CASE ExecuteFault \/ ExecuteOther \/ ExecuteUsage
        BY <2>4 DEF ExecuteFault, ExecuteOther, ExecuteUsage, Goto
  <2> QED BY <2>1, <2>2, <2>3, <2>4 DEF Execute
<1>4. Control'
      BY <1>1, <1>2, <1>3 DEF CInv, Control, StatesAt, STATES
<1>5. RoomForCommand'
      BY <1>1, <1>2, <1>3 DEF CInv, RoomForCommand
<1>6. StateMachine' \in STATES /\ at' \in PLACES /\ wait' \in Nat
      BY <1>1, <1>3 DEF CInv, Typed, PLACES
<1> QED BY <1>1, <1>4, <1>5, <1>6, StepKeeps

(* The steps that write the state machine, and the wait for a command.     *)
LEMMA StateWritingKeeps ==
    CInv /\ (BeginWaiting \/ WaitForCommand \/ BeginExecuting
                \/ EndCommand \/ ExitCommand) => CInv'
<1> SUFFICES ASSUME CInv,
                    BeginWaiting \/ WaitForCommand \/ BeginExecuting
                      \/ EndCommand \/ ExitCommand
             PROVE  CInv'
    OBVIOUS
<1>1. CASE BeginWaiting
  <2>1. /\ at = "begun" /\ at' = "switch"
        /\ StateMachine' = "WAITING_FOR_COMMAND"
        /\ UNCHANGED <<commands, commandIdx, NumberOfCommands, shown, wait, back>>
        BY <1>1 DEF BeginWaiting, Goto
  <2>2. Control' /\ RoomForCommand'
        BY <2>1 DEF CInv, Control, RoomForCommand, StatesAt, STATES
  <2>3. StateMachine' \in STATES /\ at' \in PLACES /\ wait' \in Nat
        BY <2>1 DEF CInv, Typed, PLACES, STATES
  <2> QED BY <2>1, <2>2, <2>3, StepKeeps
<1>2. CASE WaitForCommand
  <2>1. /\ at = "WAITING_FOR_COMMAND" /\ at' = "asleep"
        /\ wait' = 1 /\ back' = "switch"
        /\ UNCHANGED <<StateMachine, commands, commandIdx, NumberOfCommands,
                       shown>>
        BY <1>2 DEF WaitForCommand, SleepThen, console
  <2>2. Control' /\ RoomForCommand'
        BY <2>1 DEF CInv, Control, RoomForCommand, StatesAt, STATES
  <2>3. StateMachine' \in STATES /\ at' \in PLACES /\ wait' \in Nat
        BY <2>1 DEF CInv, Typed, PLACES
  <2> QED BY <2>1, <2>2, <2>3, StepKeeps
<1>3. CASE BeginExecuting \/ EndCommand \/ ExitCommand
  <2>1. /\ at \in {"processed", "executed", "EXIT_COMMAND"} /\ at' = "switch"
        /\ StateMachine' =
              CASE at = "processed" -> "EXECUTE_COMMAND"
                [] at = "executed" -> "EXIT_COMMAND"
                [] OTHER -> "NEW_COMMAND"
        /\ UNCHANGED <<commands, commandIdx, NumberOfCommands, shown, wait, back>>
        BY <1>3 DEF BeginExecuting, EndCommand, ExitCommand, Goto
  <2>2. Control' /\ RoomForCommand'
        BY <2>1 DEF CInv, Control, RoomForCommand, StatesAt, STATES
  <2>3. StateMachine' \in STATES /\ at' \in PLACES /\ wait' \in Nat
        BY <2>1 DEF CInv, Typed, PLACES, STATES
  <2> QED BY <2>1, <2>2, <2>3, StepKeeps
<1> QED BY <1>1, <1>2, <1>3

(* Every step keeps the invariant.                                         *)
LEMMA NextKeepsCInv == CInv /\ [Next]_vars => CInv'
<1> SUFFICES ASSUME CInv, [Next]_vars PROVE CInv'
    OBVIOUS
<1>1. CASE UNCHANGED vars
      BY <1>1 DEF vars, console, thread, CInv, Typed, Control, RoomForCommand,
                  ShownIsCurrent, Line, Ccommand
<1>2. CASE Interrupt \/ Tick
      BY <1>2, InterruptKeeps
<1>3. CASE Thread
      BY <1>3, GoingOnKeeps, NewCommandKeeps, ProcessCommandKeeps, ExecuteKeeps,
         StateWritingKeeps DEF Thread
<1> QED BY <1>1, <1>2, <1>3 DEF Next

(* It holds in every state.                                                *)
LEMMA SpecCInv == Spec => []CInv
BY InitCInv, NextKeepsCInv, PTL DEF Spec

-----------------------------------------------------------------------------
(***************************************************************************)
(* The properties.                                                         *)
(***************************************************************************)
(* The history, the cursor, the state machine and the arguments are what   *)
(* they are declared as, in every state of ExecuteConsole and function.    *)
THEOREM ConsoleIsTyped == Spec => []ConsoleTypeOK
<1>1. CInv => ConsoleTypeOK
  <2> SUFFICES ASSUME CInv PROVE ConsoleTypeOK
      OBVIOUS
  <2>1. back \in PLACES
        BY DEF CInv, Control, PLACES
  <2>2. ASSUME NEW s \in Slots
        PROVE  /\ commands[s].text \in Seq(Chars)
               /\ commands[s].args \in Seq(Seq(Chars))
               /\ RowsFit(commands[s].args)
        BY DEF CInv, Typed, CommandStructs, Fields
  <2> QED BY <2>1, <2>2 DEF CInv, Typed, ConsoleTypeOK
<1> QED BY <1>1, SpecCInv, PTL

(* The thread leaves the line and the screen alone while a key can change  *)
(* them.                                                                   *)
THEOREM OnlyOneWrites == Spec => []ScreenHasOneWriter
<1>1. CInv => ScreenHasOneWriter
      BY DEF CInv, Typed, Control, StatesAt, STATES, PLACES, Stopped,
             ScreenHasOneWriter
<1> QED BY <1>1, SpecCInv, PTL

(* insertChar and removeChar are only called with a position on the line.  *)
THEOREM CursorStaysInLine == Spec => []CursorInLine
<1>1. CInv => CursorInLine
      BY DEF CInv, Typed, CommandStructs, CursorInLine
<1> QED BY <1>1, SpecCInv, PTL

(* The line that is printed is the line that is processed and executed.    *)
THEOREM ShownLineIsTheCommand == Spec => []ShownLineIsExecuted
<1>1. CInv => ShownLineIsExecuted
      BY DEF CInv, RoomForCommand, ShownIsCurrent, ShownLineIsExecuted
<1> QED BY <1>1, SpecCInv, PTL

(* Once Enter is pressed, neither a key nor the thread changes the line,   *)
(* or moves to another, before it has been executed.                       *)
THEOREM EnteredLineIsKept == Spec => EnteredLineStands
<1> DEFINE Stands == (StateMachine \in {"PROCESS_COMMAND", "EXECUTE_COMMAND"}) =>
                         /\ commandIdx' = commandIdx
                         /\ Line' = Line
<1>1. CInv /\ [Next]_vars => [Stands]_vars
  <2> SUFFICES ASSUME CInv, Next,
                      StateMachine \in {"PROCESS_COMMAND", "EXECUTE_COMMAND"}
               PROVE  commandIdx' = commandIdx /\ Line' = Line
      BY DEF Stands
  <2>1. CASE ProcessCommand
        BY <2>1, ProcessCommandKeeps DEF ProcessCommand
  <2>2. CASE NewCommand
        BY <2>2 DEF NewCommand, CInv, Control, StatesAt
  <2>3. CASE ~ProcessCommand /\ ~NewCommand
    <3>1. UNCHANGED <<commands, commandIdx>>
          BY <2>3 DEF Next, Interrupt, KeyForTheLine, CtrlC, DownOutOfHistory,
                      Tick, Thread, WakeUp, ReadState, BeginWaiting,
                      WaitForCommand, BeginExecuting, Execute,
                      ExecuteContinuous, ExecuteSleep, ExecuteFault,
                      ExecuteOther, ExecuteUsage, ExecuteCommand, Loop,
                      EndCommand, ExitCommand, console
    <3> QED BY <3>1 DEF Line, Ccommand
  <2> QED BY <2>1, <2>2, <2>3
<1> QED BY <1>1, SpecCInv, PTL DEF Spec, EnteredLineStands, Stands

-----------------------------------------------------------------------------
(***************************************************************************)
(* The screen.  What follows is about LineOnScreen: CommandToScreen.       *)
(***************************************************************************)

(* The row of a place.                                                     *)
LEMMA RowStarts ==
    ASSUME NEW x \in Nat
    PROVE  LET pos == (x \div MAX_COLUMNS) * MAX_COLUMNS
           IN  pos \in Nat /\ pos <= x /\ pos % MAX_COLUMNS = 0
<1>1. PICK d \in Nat \ {0} : d = MAX_COLUMNS
      BY ScreenSize
<1>2. PICK q, r \in Int : q = x \div d /\ r \in 0 .. d - 1 /\ x = q * d + r
      BY Division
<1>3. ~(q <= -1)
  <2>1. ASSUME q <= -1 PROVE FALSE
    <3>1. q * d <= -d
          BY <2>1
    <3> QED BY <1>2, <3>1
  <2> QED BY <2>1
<1>4. q \in Nat
      BY <1>3
<1>5. PICK pos \in Nat : pos = q * d
      BY <1>4
<1>6. pos <= x
      BY <1>2, <1>5
<1>7. pos % d = 0
  <2>1. (q * d + 0) % d = 0
        BY QuotientAndRest
  <2>2. pos = q * d + 0
        BY <1>5
  <2> QED BY <2>1, <2>2, Zenon
<1>8. pos = (x \div MAX_COLUMNS) * MAX_COLUMNS
      BY <1>1, <1>2, <1>5, Zenon
<1>9. pos % MAX_COLUMNS = 0
      BY <1>1, <1>7, Zenon
<1> QED BY <1>5, <1>6, <1>8, <1>9, Zenon

LEMMA RowOfPlace ==
    ASSUME NEW pos \in Nat, pos % MAX_COLUMNS = 0, NEW j \in 0 .. MAX_COLUMNS - 1
    PROVE  ((pos + j) \div MAX_COLUMNS) * MAX_COLUMNS = pos
<1>1. PICK d \in Nat \ {0} : d = MAX_COLUMNS
      BY ScreenSize
<1>2. PICK q \in Int : pos = q * d
  <2>1. pos \in Int
        OBVIOUS
  <2>2. pos \div d \in Int /\ pos = (pos \div d) * d + (pos % d)
        BY <2>1, Division, Zenon
  <2>3. pos % d = 0
        BY <1>1, Zenon
  <2>4. PICK n \in Int : n = pos \div d
        BY <2>2
  <2>5. pos = n * d + 0
        BY <2>2, <2>3, <2>4, Zenon
  <2>6. pos = n * d
        BY <2>5
  <2> QED BY <2>6
<1>3. j \in 0 .. d - 1
      BY <1>1
<1>4. (q * d + j) \div d = q
      BY <1>3, QuotientAndRest
<1>5. ((pos + j) \div d) * d = pos
      BY <1>2, <1>4, Zenon
<1> QED BY <1>1, <1>5, Zenon

(* The line on the screen is the prompt and the text.                      *)
LEMMA LineIsText ==
    ASSUME NEW text \in Seq(Chars)
    PROVE  /\ Len(prompt) \in Nat /\ Len(prompt) >= 1
        /\ Len(prompt) <= MAX_COLUMNS - 2
           /\ Len(text) \in Nat
           /\ Len(prompt \o text) = Len(prompt) + Len(text)
           /\ prompt \o text = [k \in 1 .. Len(prompt \o text) |-> (prompt \o text)[k]]
           /\ \A k \in 1 .. Len(prompt \o text) :
                 (prompt \o text)[k] \notin {Nothing, EndOfLine}
<1>1. PICK S : S = Chars \cup Range(prompt)
      OBVIOUS
<1>2. prompt \in Seq(Range(prompt)) /\ Len(prompt) \in 1 .. MAX_COLUMNS - 2
      BY LineOnScreenAssumption
<1>3. PICK R : R = Range(prompt)
      OBVIOUS
<1>4. prompt \in Seq(R) /\ R \in SUBSET S /\ Chars \in SUBSET S
      BY <1>1, <1>2, <1>3
<1>5. prompt \in Seq(S) /\ text \in Seq(S)
      BY <1>4
<1>6. PICK line : line = prompt \o text
      OBVIOUS
<1>7. line \in Seq(S) /\ Len(line) = Len(prompt) + Len(text)
      BY <1>5, <1>6, ConcatProperties
<1>8. line \in [1 .. Len(line) -> S]
      BY <1>7, LenProperties
<1>9. \A c \in S : c \notin {Nothing, EndOfLine}
      BY <1>1, LineOnScreenAssumption
<1>10. \A k \in 1 .. Len(line) : line[k] \notin {Nothing, EndOfLine}
      BY <1>8, <1>9
<1>11. line = [k \in 1 .. Len(line) |-> line[k]]
      BY <1>8
<1>12. Len(prompt) \in Nat /\ Len(prompt) >= 1
           /\ Len(prompt) <= MAX_COLUMNS - 2
      BY <1>2, ScreenSize
<1>13. Len(text) \in Nat
      OBVIOUS
<1> QED BY <1>6, <1>7, <1>10, <1>11, <1>12, <1>13, Zenon

(* A line is shown from a place on, with nothing of another one behind it, *)
(* except in the first row.                                                *)
Shows(s, pos, cmd) ==
    LET line == prompt \o cmd.text IN
    /\ pos \in Nat /\ pos % MAX_COLUMNS = 0 /\ pos + Len(line) <= MAX_OFFSET
    /\ \A k \in 1 .. Len(line) : s.cells[pos + k - 1] = line[k]
    /\ pos > 0
        => \A p \in pos + Len(line) .. MAX_OFFSET - 1 : s.cells[p] = Nothing

(* The cursor stands where the next key works, behind the old text that is *)
(* not counted in a slot that is used again.                               *)
CursorOnLine(s, pos, cmd) ==
    s.cursor = pos + Len(prompt) + cmd.CurrentPos
                   + (Len(cmd.text) - cmd.EndPos)

(* What CommandToScreen clears reaches to the end of the screen from any   *)
(* row but the first.                                                      *)
LEMMA ClearedToTheEnd ==
    ASSUME NEW cmd, cmd.CurrentPos \in Nat,
           NEW pos \in Nat, pos % MAX_COLUMNS = 0, pos > 0
    PROVE  EndOfClearing(pos, cmd) - 1 \in Int
        /\ EndOfClearing(pos, cmd) - 1 >= MAX_OFFSET - 1
<1>1. PICK d \in Nat \ {0} : d = MAX_COLUMNS
      BY ScreenSize
<1>2. PICK q, r \in Int : q = pos \div d /\ r = pos % d /\ r \in 0 .. d - 1
          /\ pos = q * d + r
  <2>1. pos \in Int
        OBVIOUS
  <2>2. /\ pos \div d \in Int /\ pos % d \in 0 .. d - 1
        /\ pos = (pos \div d) * d + (pos % d)
        BY <2>1, Division, Zenon
  <2>3. pos % d \in Int
        BY <2>2
  <2> QED BY <2>2, <2>3, Zenon
<1>3. r = 0
      BY <1>1, <1>2, Zenon
<1>4. pos >= d
  <2>1. q >= 1
    <3>1. ASSUME q <= 0 PROVE FALSE
      <4>1. q * d <= 0
            BY <1>2, <3>1
      <4> QED BY <1>2, <1>3, <4>1
    <3> QED BY <1>2, <3>1
  <2>2. q * d >= d
        BY <1>2, <2>1
  <2> QED BY <1>2, <1>3, <2>2
<1>5. PICK len \in Nat : len = Len(prompt)
      BY LineOnScreenAssumption, ScreenSize
<1>6. PICK rows, rest \in Int :
         rows = len \div d /\ rest = len % d /\ rest \in 0 .. d - 1
             /\ len = rows * d + rest
  <2>1. len \in Int
        OBVIOUS
  <2>2. /\ len \div d \in Int /\ len % d \in 0 .. d - 1
        /\ len = (len \div d) * d + (len % d)
        BY <2>1, Division, Zenon
  <2>3. len % d \in Int
        BY <2>2
  <2> QED BY <2>2, <2>3, Zenon
<1>7. rows >= 0
  <2>2. ASSUME rows <= -1 PROVE FALSE
    <3>1. rows * d <= -d
          BY <1>6, <2>2
    <3> QED BY <1>5, <1>6, <3>1
  <2> QED BY <1>6, <2>2
<1>8. PICK at2 \in Nat : at2 = cmd.CurrentPos
      OBVIOUS
<1>9. PICK n \in Int : n = pos + at2 + rows + 1
      OBVIOUS
<1>10. n >= d + 1
      BY <1>4, <1>7, <1>9
<1>11. n * d >= d * d + d
  <2>1. (n - (d + 1)) * d >= 0
        BY <1>10
  <2>2. (n - (d + 1)) * d = n * d - (d * d + d)
        OBVIOUS
  <2>3. n * d \in Int /\ d * d \in Int
        OBVIOUS
  <2> QED BY <2>1, <2>2, <2>3
<1>12. PICK max \in Nat : max = MAX_OFFSET /\ max <= d * d
      BY <1>1, ScreenSize
<1>13. EndOfClearing(pos, cmd) = n * d - 1
  <2>1. EndOfClearing(pos, cmd) = (pos + at2 + (len \div d) + 1) * d - 1
        BY <1>1, <1>5, <1>8, Zenon DEF EndOfClearing
  <2> QED BY <1>6, <1>9, <2>1, Zenon
<1>14. n * d \in Int /\ n * d - 1 - 1 \in Int /\ n * d - 1 - 1 >= max - 1
      BY <1>11, <1>12
<1> QED BY <1>12, <1>13, <1>14, Zenon

LEMMA LineIsDrawn ==
    ASSUME NEW s, IsScreen(s), NEW cmd \in CommandStructs
    PROVE  LET pos == LineStart(s, cmd)
               new == CommandToScreen(s, cmd)
           IN  /\ IsScreen(new) /\ pos \in Nat
               /\ pos + Len(prompt) + Len(cmd.text) <= MAX_OFFSET =>
                     Shows(new, pos, cmd) /\ CursorOnLine(new, pos, cmd)
<1>1. /\ cmd.text \in Seq(Chars) /\ cmd.CurrentPos \in Nat
          /\ cmd.EndPos \in Nat
      /\ cmd.CurrentPos <= cmd.EndPos
      BY DEF CommandStructs, Fields
<1>2. PICK text, line : text = cmd.text /\ line = prompt \o text
      OBVIOUS
<1>3. PICK plen, tlen, len \in Nat :
         /\ plen = Len(prompt) /\ tlen = Len(text) /\ len = Len(line)
             /\ len = plen + tlen
         /\ \A k \in 1 .. len : line[k] \notin {Nothing, EndOfLine}
  <2>1. text \in Seq(Chars)
        BY <1>1, <1>2
  <2>2. /\ Len(prompt) \in Nat /\ Len(text) \in Nat
        /\ Len(prompt \o text) = Len(prompt) + Len(text)
        /\ \A k \in 1 .. Len(prompt \o text) : (prompt \o text)[k] \notin {Nothing, EndOfLine}
        BY <2>1, LineIsText
  <2>3. Len(line) \in Nat /\ Len(line) = Len(prompt) + Len(text)
        BY <1>2, <2>2
  <2> QED BY <1>2, <2>2, <2>3
<1>4. PICK pos : pos = LineStart(s, cmd)
      OBVIOUS
<1>5. pos \in Nat /\ pos % MAX_COLUMNS = 0
  <2>1. s.cursor - cmd.CurrentPos \in Int
        BY <1>1, ScreenSize DEF IsScreen
  <2>2. PICK t : t = CursorPosition(s, s.cursor - cmd.CurrentPos)
        OBVIOUS
  <2>3. IsScreen(t)
        BY <2>1, <2>2, CursorMoves
  <2>4. t.cursor \in Nat
        BY <2>3, ScreenSize DEF IsScreen
  <2>5. pos = (t.cursor \div MAX_COLUMNS) * MAX_COLUMNS
        BY <1>4, <2>2, Zenon DEF LineStart, GetLinePosition
  <2>6. /\ (t.cursor \div MAX_COLUMNS) * MAX_COLUMNS \in Nat
        /\ ((t.cursor \div MAX_COLUMNS) * MAX_COLUMNS) % MAX_COLUMNS = 0
        BY <2>4, RowStarts, Zenon
  <2> QED BY <2>5, <2>6, Zenon
<1>6. PICK t : t = Prepared(s, cmd)
      OBVIOUS
<1>7. IsScreen(t) /\ (pos \in 0 .. MAX_OFFSET => t.cursor = pos)
  <2>1. t = CursorPosition(s, pos)
        BY <1>4, <1>6 DEF Prepared
  <2> QED BY <1>5, <2>1, CursorMoves
<1>8. PICK last : last = EndOfClearing(pos, cmd) - 1
      OBVIOUS
<1>9. PICK c : c = ClearPos(t, pos, last)
      OBVIOUS
<1>10. /\ IsScreen(c) /\ c.cursor = t.cursor
       /\ \A p \in Cells : p \in pos .. last => c.cells[p] = Nothing
  <2>1. c = [cells |-> [p \in DOMAIN t.cells |->
                          IF p \in pos .. last THEN Nothing ELSE t.cells[p]],
             cursor |-> t.cursor]
        BY <1>7, <1>9 DEF ClearPos, IsScreen
  <2>2. DOMAIN t.cells = Cells
        BY <1>7 DEF IsScreen
  <2> QED BY <1>7, <2>1, <2>2 DEF IsScreen
<1>11. PICK full : full = PutString(c, line)
      OBVIOUS
<1>12. IsScreen(full)
      BY <1>3, <1>10, <1>11, StringKeepsScreen
<1>13. PICK new : new = CommandToScreen(s, cmd)
      OBVIOUS
<1>14. new = CursorPosition(full, full.cursor - (cmd.EndPos - cmd.CurrentPos))
      BY <1>2, <1>4, <1>6, <1>8, <1>9, <1>11, <1>13, Zenon DEF CommandToScreen
<1>15. full.cursor \in Nat
           /\ full.cursor - (cmd.EndPos - cmd.CurrentPos) \in Int
      BY <1>1, <1>12, ScreenSize DEF IsScreen
<1>16. IsScreen(new) /\ new.cells = full.cells
      BY <1>12, <1>14, <1>15, CursorMoves
<1>17. ASSUME pos + plen + tlen <= MAX_OFFSET
       PROVE  Shows(new, pos, cmd) /\ CursorOnLine(new, pos, cmd)
  <2>1. PICK max \in Nat : max = MAX_OFFSET
        BY ScreenSize
  <2>2. pos + len <= max /\ pos \in 0 .. max
        BY <1>3, <1>5, <1>17, <2>1
  <2>3. c.cursor = pos
        BY <1>7, <1>10, <2>1, <2>2
  <2>4. /\ full.cursor = pos + len
        /\ full.cells = Written(c, line, len)
    <3>1. c.cursor + Len(line) <= MAX_OFFSET
          BY <1>3, <2>1, <2>2, <2>3
    <3> QED BY <1>3, <1>10, <1>11, <2>3, <3>1, StringIsWritten
  <2>5. \A p \in Cells :
          new.cells[p] = IF p \in pos .. pos + len - 1 THEN line[p - pos + 1]
              ELSE c.cells[p]
        BY <1>16, <2>3, <2>4 DEF Written
  <2>6. ASSUME NEW k \in 1 .. len PROVE new.cells[pos + k - 1] = line[k]
    <3>1. PICK p \in Int : p = pos + k - 1
          BY <1>5
    <3>2. p \in Cells /\ p \in pos .. pos + len - 1 /\ p - pos + 1 = k
      <4>1. p \in 0 .. max - 1 /\ p \in pos .. pos + len - 1 /\ p - pos + 1 = k
            BY <1>5, <2>2, <3>1
      <4> QED BY <2>1, <4>1 DEF Cells
    <3> QED BY <2>5, <3>1, <3>2
  <2>7. ASSUME pos > 0, NEW p \in pos + len .. MAX_OFFSET - 1
        PROVE  new.cells[p] = Nothing
    <3>1. PICK l \in Int : l = last /\ l >= max - 1
          BY <1>1, <1>5, <1>8, <2>1, <2>7, ClearedToTheEnd
    <3>2. p \in pos + len .. max - 1
          BY <2>1, <2>7
    <3>3. p \in 0 .. max - 1 /\ p \notin pos .. pos + len - 1 /\ p \in pos .. l
          BY <1>5, <3>1, <3>2
    <3>4. p \in Cells
          BY <2>1, <3>3 DEF Cells
    <3> QED BY <1>10, <2>5, <3>1, <3>3, <3>4
  <2>8. Shows(new, pos, cmd)
        BY <1>2, <1>3, <1>5, <2>1, <2>2, <2>6, <2>7 DEF Shows
  <2>9. CursorOnLine(new, pos, cmd)
    <3>1. PICK cur, end \in Nat : cur = cmd.CurrentPos /\ end = cmd.EndPos
              /\ cur <= end /\ end <= tlen
          BY <1>1, <1>2, <1>3 DEF CommandStructs
    <3>2. PICK p \in Nat : p = pos
          BY <1>5
    <3>6. PICK c2 \in Int : c2 = p + plen + cur + (tlen - end)
          OBVIOUS
    <3>7. full.cursor = p + (plen + tlen) /\ p + (plen + tlen) <= max
          BY <1>3, <2>2, <2>4, <3>2
    <3>3. full.cursor - (end - cur) = c2 /\ c2 \in 0 .. MAX_OFFSET
      <4>1. p + (plen + tlen) - (end - cur) = c2 /\ c2 \in 0 .. max
            BY <3>1, <3>6, <3>7
      <4>2. PICK fc \in Int : fc = full.cursor /\ fc = p + (plen + tlen)
            BY <3>7
      <4>3. fc - (end - cur) = c2
            BY <4>1, <4>2
      <4> QED BY <2>1, <4>1, <4>2, <4>3
    <3>4. new = CursorPosition(full, c2)
          BY <1>14, <3>1, <3>3
    <3>5. new.cursor = c2
          BY <1>12, <3>3, <3>4, CursorMoves
    <3> QED BY <1>2, <1>3, <3>1, <3>2, <3>5, <3>6 DEF CursorOnLine
  <2> QED BY <2>8, <2>9
<1> QED BY <1>2, <1>3, <1>4, <1>5, <1>13, <1>16, <1>17

-----------------------------------------------------------------------------
(***************************************************************************)
(* The line on the screen: the invariant and the steps.                    *)
(***************************************************************************)

(* From a prompt that is printed until a key ends the line, unless it went *)
(* over the end of the screen.                                             *)
LineWaits ==
    /\ StateMachine = "WAITING_FOR_COMMAND" \/ at = "begun"
    /\ ~Stopped /\ ~over

LineStands ==
    Shows(screen, row, Ccommand) /\ CursorOnLine(screen, row, Ccommand)

(* The invariant: what is waited for stands on the screen.                 *)
LInv == CInv /\ IsScreen(screen) /\ (LineWaits => LineStands)

-----------------------------------------------------------------------------
(* The thread starts with a screen, whatever the greeting is.              *)
LEMMA FirstScreen == LineInit => IsScreen(screen)
<1> SUFFICES ASSUME LineInit PROVE IsScreen(screen)
    OBVIOUS
<1>1. IsScreen(BootScreen)
      BY ScreenSize DEF IsScreen, BootScreen, Cells
<1>2. PICK s : s = ClearScreen(BootScreen) /\ IsScreen(s)
      BY <1>1, ScreenIsCleared DEF IsScreen
<1>3. PICK g : g = HelloBoot(s, boot)
      OBVIOUS
<1>4. /\ g = [cells |-> g.cells, cursor |-> g.cursor]
      /\ DOMAIN g.cells = Cells
      BY <1>2, <1>3 DEF HelloBoot, CursorPosition, CursorMove, IsScreen
<1>5. PICK c : c = ClearScreen(g)
      OBVIOUS
<1>6. IsScreen(c)
      BY <1>4, <1>5, ScreenIsCleared
<1>7. PICK out \in Outputs : screen = PutString(c, out)
      BY <1>2, <1>3, <1>5 DEF LineInit
<1>8. Len(out) \in Nat
      BY LineOnScreenAssumption
<1> QED BY <1>6, <1>7, <1>8, StringKeepsScreen

-----------------------------------------------------------------------------
(* The steps of LineOnScreen are steps of Console.                         *)
LEMMA LineStepIsStep == [LineNext]_lineVars => [Next]_vars
<1> SUFFICES ASSUME [LineNext]_lineVars PROVE [Next]_vars
    OBVIOUS
<1>1. CASE KeyOnScreen
  <2>1. ~Stopped /\ StateMachine = "WAITING_FOR_COMMAND" /\ UNCHANGED thread
        BY <1>1 DEF KeyOnScreen
  <2>2. \/ \E c \in Chars : WriteIntoComand(c)
        \/ BackSpace \/ Delete \/ Left \/ Right \/ Up \/ Down \/ Enter
        \/ UNCHANGED console
        BY <1>1 DEF KeyOnScreen, TypeOnScreen, BackSpaceOnScreen,
            DeleteOnScreen,
                    MoveOnScreen, RecallOnScreen, EnterOnScreen
  <2> QED BY <2>1, <2>2 DEF Next, Interrupt, KeyForTheLine, vars
<1>2. CASE PromptOnScreen
      BY <1>2 DEF PromptOnScreen, Next, Thread
<1>3. CASE AnswerOnScreen
      BY <1>3 DEF AnswerOnScreen, Next, Thread, Execute
<1>4. CASE ExitOnScreen
      BY <1>4 DEF ExitOnScreen, Next, Thread
<1>5. CASE NotOnScreen
      BY <1>5 DEF NotOnScreen, Next, Thread, Interrupt
<1>6. CASE UNCHANGED lineVars
      BY <1>6 DEF lineVars
<1> QED BY <1>1, <1>2, <1>3, <1>4, <1>5, <1>6 DEF LineNext

(* After the step there is a current command, too.                         *)
LEMMA NextCommand ==
    ASSUME CInv', (StateMachine # "NEW_COMMAND" \/ at = "begun")'
    PROVE  /\ commandIdx' \in Slots
        /\ commands'[commandIdx'] \in CommandStructs
           /\ Ccommand' = commands'[commandIdx']
<1>1. commandIdx' \in Slots
      BY ConsoleAssumption DEF CInv, Typed, RoomForCommand, Slots
<1> QED BY <1>1 DEF CInv, Typed, Ccommand

(* A line that has just been drawn stands.                                 *)
LEMMA DrawnLineStands ==
    ASSUME NEW s, IsScreen(s), Draw(s), CInv',
           (StateMachine # "NEW_COMMAND" \/ at = "begun")'
    PROVE  IsScreen(screen') /\ (~over' => LineStands')
<1>1. PICK cmd \in CommandStructs : cmd = commands'[commandIdx']
          /\ Ccommand' = cmd
      BY NextCommand
<1>2. PICK pos, new : pos = LineStart(s, cmd) /\ new = CommandToScreen(s, cmd)
      OBVIOUS
<1>3. screen' = new /\ row' = pos
      BY <1>1, <1>2 DEF Draw, Drawn, Remember
<1>4. ~over' => ~(pos + Len(prompt) + Len(cmd.text) > MAX_OFFSET)
      BY <1>1, <1>2 DEF Draw, Remember
<1>5. /\ IsScreen(new) /\ pos \in Nat
      /\ pos + Len(prompt) + Len(cmd.text) <= MAX_OFFSET =>
            Shows(new, pos, cmd) /\ CursorOnLine(new, pos, cmd)
      BY <1>2, LineIsDrawn
<1>6. ASSUME ~over' PROVE LineStands'
  <2>1. cmd.text \in Seq(Chars)
        BY DEF CommandStructs, Fields
  <2>2. Len(prompt) \in Nat /\ Len(cmd.text) \in Nat /\ MAX_OFFSET \in Nat
        BY <2>1, LineIsText, ScreenSize
  <2>3. pos + Len(prompt) + Len(cmd.text) <= MAX_OFFSET
    <3>1. PICK p, t, max \in Nat : p = Len(prompt) /\ t = Len(cmd.text)
              /\ max = MAX_OFFSET
          BY <2>2
    <3>2. ~(pos + p + t > max)
          BY <1>4, <1>6, <3>1
    <3>3. pos + p + t <= max
          BY <1>5, <3>2
    <3> QED BY <3>1, <3>3
  <2>4. Shows(new, pos, cmd) /\ CursorOnLine(new, pos, cmd)
        BY <1>5, <2>3
  <2> QED BY <1>1, <1>3, <2>4 DEF LineStands
<1> QED BY <1>3, <1>5, <1>6

(* CommandToScreen finds the row the line begins in, also from one place   *)
(* to the right of it.                                                     *)
LEMMA RowIsFound ==
    ASSUME NEW s, IsScreen(s), NEW cmd, cmd.CurrentPos \in Nat,
           NEW pos \in Nat, pos % MAX_COLUMNS = 0,
           NEW j \in 0 .. MAX_COLUMNS - 1, pos + j <= MAX_OFFSET,
           s.cursor = pos + j + cmd.CurrentPos
    PROVE  LineStart(s, cmd) = pos
<1>1. PICK p \in Nat : p = pos + j
      BY ScreenSize
<1>2. s.cursor - cmd.CurrentPos = p /\ p \in 0 .. MAX_OFFSET /\ p \in Int
      BY <1>1, ScreenSize
<1>3. PICK t : t = CursorPosition(s, s.cursor - cmd.CurrentPos)
      OBVIOUS
<1>4. t.cursor = p
      BY <1>2, <1>3, CursorMoves
<1>5. LineStart(s, cmd) = (p \div MAX_COLUMNS) * MAX_COLUMNS
      BY <1>3, <1>4, Zenon DEF LineStart, GetLinePosition
<1>6. ((pos + j) \div MAX_COLUMNS) * MAX_COLUMNS = pos
      BY RowOfPlace
<1> QED BY <1>1, <1>5, <1>6, Zenon

(* After BackSpace and Delete the line stands in the row it stood in.      *)
LEMMA EditedLineStands ==
    ASSUME CInv, CInv', IsScreen(screen), ~over => LineStands,
           StateMachine = "WAITING_FOR_COMMAND", (StateMachine # "NEW_COMMAND")',
           Ccommand.EndPos # 0,
           NEW by \in {0, 1}, DrawAround(screen.cursor - by),
           commands'[commandIdx'].CurrentPos = Ccommand.CurrentPos - by,
           commands'[commandIdx'].EndPos = Len(commands'[commandIdx'].text)
    PROVE  IsScreen(screen') /\ (~over' => LineStands')
<1>1. PICK cmd \in CommandStructs : cmd = Ccommand
      BY CurrentCommand
<1>2. PICK new \in CommandStructs : new = commands'[commandIdx']
          /\ Ccommand' = new
      BY NextCommand
<1>3. PICK cur, plen, tlen, max, at2 \in Nat :
         /\ cur = cmd.CurrentPos /\ plen = Len(prompt) /\ tlen = Len(cmd.text)
         /\ max = MAX_OFFSET /\ at2 = screen.cursor /\ cmd.EndPos = tlen
             /\ tlen >= 1
         /\ cur <= tlen /\ plen <= MAX_COLUMNS - 2
  <2>1. /\ cmd.text \in Seq(Chars) /\ cmd.CurrentPos \in Nat
            /\ cmd.EndPos = Len(cmd.text)
        /\ cmd.CurrentPos <= cmd.EndPos
        BY <1>1 DEF CommandStructs, Fields
  <2>2. Len(prompt) \in Nat /\ Len(cmd.text) \in Nat
            /\ Len(prompt) <= MAX_COLUMNS - 2
        BY <2>1, LineIsText
  <2>3. screen.cursor \in Nat /\ MAX_OFFSET \in Nat
        BY ScreenSize DEF IsScreen
  <2>4. Len(cmd.text) >= 1
        BY <1>1, <2>1, <2>2
  <2> QED BY <2>1, <2>2, <2>3, <2>4
<1>4. PICK full, pos : full = CommandToScreen(screen, new)
          /\ pos = LineStart(screen, new)
      OBVIOUS
<1>5. /\ IsScreen(full) /\ pos \in Nat
      /\ pos + Len(prompt) + Len(new.text) <= MAX_OFFSET =>
            Shows(full, pos, new) /\ CursorOnLine(full, pos, new)
      BY <1>4, LineIsDrawn
<1>6. screen' = CursorPosition(full, at2 - by) /\ row' = pos
      BY <1>2, <1>3, <1>4 DEF DrawAround, Drawn, Remember
<1>7. at2 - by \in Int
      BY <1>3
<1>8. IsScreen(screen') /\ screen'.cells = full.cells
      BY <1>5, <1>6, <1>7, CursorMoves
<1>9. ~over' => ~over /\ ~(pos + Len(prompt) + Len(new.text) > MAX_OFFSET)
      BY <1>2, <1>4 DEF DrawAround, Remember
<1>10. ASSUME ~over' PROVE LineStands'
  <2>1. /\ row \in Nat /\ row % MAX_COLUMNS = 0 /\ row + plen + tlen <= max
        /\ at2 = row + plen + cur
    <3>1. LineStands
          BY <1>9, <1>10
    <3>2. /\ row \in Nat /\ row % MAX_COLUMNS = 0
          /\ row + Len(prompt \o cmd.text) <= MAX_OFFSET
          /\ screen.cursor = row + Len(prompt) + cmd.CurrentPos
                                 + (Len(cmd.text) - cmd.EndPos)
          BY <1>1, <1>3, <3>1 DEF LineStands, Shows, CursorOnLine
    <3>3. cmd.text \in Seq(Chars)
          BY DEF CommandStructs, Fields
    <3>4. Len(prompt \o cmd.text) = plen + tlen
          BY <1>3, <3>3, LineIsText
    <3>5. at2 = row + plen + cur + (tlen - tlen)
          BY <1>3, <3>2
    <3>6. PICK r \in Nat : r = row
          BY <3>2
    <3>7. at2 = r + plen + cur
          BY <3>5, <3>6
    <3>8. r + (plen + tlen) <= max
          BY <1>3, <3>2, <3>4, <3>6
    <3>9. r + plen + tlen <= max
          BY <3>8
    <3> QED BY <3>2, <3>6, <3>7, <3>9
  <2>2. new.CurrentPos = cur - by /\ new.CurrentPos \in Nat
            /\ new.text \in Seq(Chars)
        BY <1>1, <1>2, <1>3 DEF CommandStructs, Fields
  <2>3. PICK j \in Nat : j = plen + by
        BY <1>3
  <2>4. /\ j \in 0 .. MAX_COLUMNS - 1 /\ row + j <= max
        /\ at2 = row + j + new.CurrentPos
    <3>1. PICK r, c, np \in Nat :
             r = row /\ c = MAX_COLUMNS /\ np = new.CurrentPos /\ np = cur - by
          BY <2>1, <2>2, ScreenSize
    <3>2. plen <= c - 2 /\ r + plen + tlen <= max /\ at2 = r + plen + cur
              /\ tlen >= 1
          BY <1>3, <2>1, <3>1
    <3>3. j \in 0 .. c - 1 /\ r + j <= max /\ at2 = r + j + np
      <4>1. CASE by = 0
            BY <2>3, <3>1, <3>2, <4>1
      <4>2. CASE by = 1
            BY <2>3, <3>1, <3>2, <4>2
      <4> QED BY <4>1, <4>2
    <3> QED BY <3>1, <3>3
  <2>5. pos = row
        BY <1>3, <1>4, <2>1, <2>2, <2>4, RowIsFound
  <2>6. /\ Shows(full, pos, new) /\ Len(new.text) \in Nat
    <3>1. PICK t \in Nat : t = Len(new.text)
          BY <2>2, LenProperties
    <3>2. ~(pos + plen + t > max)
          BY <1>3, <1>9, <1>10, <3>1
    <3>3. pos + plen + t <= max
          BY <1>3, <1>5, <3>2
    <3> QED BY <1>3, <1>5, <3>1, <3>3
  <2>7. Shows(screen', pos, new)
        BY <1>8, <2>6 DEF Shows
  <2>8. screen'.cursor = pos + Len(prompt) + new.CurrentPos
            + (Len(new.text) - new.EndPos)
    <3>0. PICK n \in Nat : n = Len(new.text) /\ n = new.EndPos
          BY <1>2, <2>2, LenProperties
    <3>1. at2 - by \in 0 .. MAX_OFFSET /\ at2 - by = row + plen + (cur - by)
      <4>1. PICK r, np \in Nat : r = row /\ np = cur - by
            BY <2>1, <2>2
      <4>2. r + plen + tlen <= max /\ at2 = r + plen + cur /\ cur <= tlen
            BY <1>3, <2>1, <4>1
      <4>3. at2 - by \in 0 .. max /\ at2 - by = r + plen + (cur - by)
        <5>1. CASE by = 0
              BY <4>1, <4>2, <5>1
        <5>2. CASE by = 1
              BY <4>1, <4>2, <5>2
        <5> QED BY <5>1, <5>2
      <4> QED BY <1>3, <4>1, <4>3
    <3>2. screen'.cursor = at2 - by
          BY <1>5, <1>6, <1>7, <3>1, CursorMoves
    <3>3. PICK r, np \in Nat : r = row /\ np = cur - by
          BY <2>1, <2>2
    <3>4. screen'.cursor = r + plen + np + (n - n)
          BY <1>3, <3>1, <3>2, <3>3
    <3> QED BY <1>3, <2>2, <2>5, <3>0, <3>3, <3>4
  <2> QED BY <1>2, <1>6, <2>7, <2>8 DEF LineStands, CursorOnLine
<1> QED BY <1>8, <1>10

(* The cursor moves on the line.                                           *)
LEMMA MovedCursorStands ==
    ASSUME CInv, IsScreen(screen), ~over => LineStands,
           StateMachine = "WAITING_FOR_COMMAND",
           NEW by \in {-1, 1}, MoveCursor(by),
           screen' = CursorPosition(screen, screen.cursor + by),
           UNCHANGED drawing
    PROVE  IsScreen(screen') /\ (~over' => LineStands')
<1>1. PICK cmd \in CommandStructs : cmd = Ccommand
      BY CurrentCommand
<1>2. /\ cmd.text \in Seq(Chars) /\ cmd.CurrentPos \in Nat
          /\ cmd.EndPos \in Nat
      BY DEF CommandStructs, Fields
<1>3. PICK pos : pos = cmd.CurrentPos + by /\ pos \in 0 .. cmd.EndPos
      BY <1>1 DEF MoveCursor
<1>4. /\ Ccommand'.text = cmd.text /\ Ccommand'.EndPos = cmd.EndPos
      /\ Ccommand'.CurrentPos = pos
  <2>1. commandIdx \in Slots /\ commands \in [Slots -> CommandStructs]
        BY CurrentCommand DEF CInv, Typed
  <2>2. commands' = [commands EXCEPT ![commandIdx].CurrentPos = pos]
            /\ commandIdx' = commandIdx
        BY <1>1, <1>3 DEF MoveCursor
  <2>3. Ccommand' = [cmd EXCEPT !.CurrentPos = pos]
        BY <1>1, <2>1, <2>2 DEF Ccommand
  <2>4. cmd \in Fields
        BY DEF CommandStructs
  <2> QED BY <2>3, <2>4 DEF Fields
<1>5. screen.cursor \in Nat /\ screen.cursor + by \in Int
      BY ScreenSize DEF IsScreen
<1>6. IsScreen(screen') /\ screen'.cells = screen.cells
      BY <1>5, CursorMoves
<1>7. ASSUME ~over' PROVE LineStands'
  <2>1. Shows(screen, row, cmd) /\ CursorOnLine(screen, row, cmd)
        BY <1>1, <1>7 DEF LineStands, drawing
  <2>2. Shows(screen', row', Ccommand')
        BY <1>4, <1>6, <2>1 DEF Shows, drawing
  <2>3. CursorOnLine(screen', row', Ccommand')
    <3>1. PICK plen, tlen, cur, end, max, r \in Nat :
             /\ plen = Len(prompt) /\ tlen = Len(cmd.text)
             /\ cur = cmd.CurrentPos /\ end = cmd.EndPos /\ end <= tlen
             /\ max = MAX_OFFSET /\ r = row /\ r + (plen + tlen) <= max
      <4>1. /\ Len(prompt) \in Nat /\ Len(cmd.text) \in Nat
            /\ Len(prompt \o cmd.text) = Len(prompt) + Len(cmd.text)
            BY <1>2, LineIsText
      <4>2. row \in Nat /\ row + Len(prompt \o cmd.text) <= MAX_OFFSET
            BY <2>1 DEF Shows
      <4>3. cmd.EndPos <= Len(cmd.text)
            BY <1>2, <4>1 DEF CommandStructs
      <4> QED BY <1>2, <4>1, <4>2, <4>3, ScreenSize
    <3>2. screen.cursor = r + plen + cur + (tlen - end)
          BY <2>1, <3>1 DEF CursorOnLine
    <3>3. pos = cur + by /\ pos \in 0 .. end
          BY <1>3, <3>1
    <3>8. PICK left, p \in Nat : left = tlen - end /\ p = pos /\ p <= end
          BY <3>1, <3>3
    <3>4. screen.cursor + by = r + plen + pos + (tlen - end)
          BY <3>2, <3>3, <3>8
    <3>5. screen.cursor + by \in 0 .. MAX_OFFSET
      <4>1. r + plen + p + left \in 0 .. max
            BY <3>1, <3>8
      <4> QED BY <3>1, <3>4, <3>8, <4>1, Zenon
    <3>6. screen'.cursor = screen.cursor + by
          BY <1>5, <3>5, CursorMoves
    <3>7. row' = row
          BY DEF drawing
    <3> QED BY <1>4, <3>1, <3>4, <3>6, <3>7 DEF CursorOnLine
  <2>4. row' = row
        BY DEF drawing
  <2> QED BY <2>2, <2>3, <2>4 DEF LineStands
<1> QED BY <1>6, <1>7

(* Every key that edits or recalls the line.                               *)
LEMMA KeyOnScreenKeeps == LInv /\ CInv' /\ KeyOnScreen => LInv'
<1> SUFFICES ASSUME LInv, CInv', KeyOnScreen PROVE LInv'
    OBVIOUS
<1>1. /\ CInv /\ IsScreen(screen) /\ ~Stopped
      /\ StateMachine = "WAITING_FOR_COMMAND" /\ UNCHANGED thread
      BY DEF LInv, KeyOnScreen
<1>2. ~over => LineStands
      BY <1>1 DEF LInv, LineWaits
<1>3. PICK cmd \in CommandStructs : cmd = Ccommand
      BY <1>1, CurrentCommand
<1>4. /\ commandIdx \in Slots /\ commands \in [Slots -> CommandStructs]
      /\ cmd \in Fields
      BY <1>1, CurrentCommand DEF CInv, Typed, CommandStructs
<1>5. ASSUME IsScreen(screen'), ~over' => LineStands'
      PROVE  LInv'
      BY <1>5 DEF LInv, LineWaits
<1>6. CASE TypeOnScreen
  <2>1. Draw(screen) /\ (StateMachine # "NEW_COMMAND")'
        BY <1>1, <1>6 DEF TypeOnScreen, WriteIntoComand, Edit
  <2> QED BY <1>1, <1>5, <2>1, DrawnLineStands
<1>7. CASE BackSpaceOnScreen
  <2>1. PICK new : new = [cmd EXCEPT !.text = removeChar(@, cmd.CurrentPos),
                                     !.CurrentPos = @ - 1, !.EndPos = @ - 1]
        OBVIOUS
  <2>2. /\ cmd.CurrentPos > 0 /\ Edit(new) /\ DrawAround(screen.cursor - 1)
        BY <1>3, <1>7, <2>1 DEF BackSpaceOnScreen, BackSpace
  <2>3. (StateMachine # "NEW_COMMAND")' /\ commands'[commandIdx'] = new
        BY <1>1, <1>4, <2>2 DEF Edit
  <2>4. new.CurrentPos = cmd.CurrentPos - 1
        BY <1>4, <2>1 DEF Fields
  <2>5. cmd.EndPos # 0 /\ cmd.EndPos = Len(cmd.text)
        /\ cmd.CurrentPos \in 1 .. Len(cmd.text)
        BY <2>2 DEF CommandStructs, Fields
  <2>6. new.EndPos = Len(new.text)
    <3>1. Len(removeChar(cmd.text, cmd.CurrentPos)) = Len(cmd.text) - 1
          BY <1>4, <2>5, RemovedLine DEF Fields
    <3> QED BY <1>4, <2>1, <2>5, <3>1 DEF Fields
  <2> QED BY <1>1, <1>2, <1>3, <1>5, <2>2, <2>3, <2>4, <2>5, <2>6,
             EditedLineStands
<1>8. CASE DeleteOnScreen
  <2>1. PICK new : new = [cmd EXCEPT !.text = removeChar(@, cmd.CurrentPos + 1),
                                     !.EndPos = @ - 1]
        OBVIOUS
  <2>2. /\ cmd.CurrentPos < cmd.EndPos /\ Edit(new)
            /\ DrawAround(screen.cursor)
        BY <1>3, <1>8, <2>1 DEF DeleteOnScreen, Delete
  <2>3. (StateMachine # "NEW_COMMAND")' /\ commands'[commandIdx'] = new
        BY <1>1, <1>4, <2>2 DEF Edit
  <2>4. new.CurrentPos = cmd.CurrentPos
        BY <1>4, <2>1 DEF Fields
  <2>5. cmd.EndPos # 0 /\ cmd.CurrentPos - 0 = cmd.CurrentPos
        /\ cmd.EndPos = Len(cmd.text) /\ cmd.CurrentPos + 1 \in 1 .. Len(cmd.text)
        BY <2>2 DEF CommandStructs, Fields
  <2>9. new.EndPos = Len(new.text)
    <3>1. Len(removeChar(cmd.text, cmd.CurrentPos + 1)) = Len(cmd.text) - 1
          BY <1>4, <2>5, RemovedLine DEF Fields
    <3> QED BY <1>4, <2>1, <2>5, <3>1 DEF Fields
  <2>6. screen.cursor \in Nat
        BY <1>1, ScreenSize DEF IsScreen
  <2>7. screen.cursor - 0 = screen.cursor
        BY <2>6
  <2>8. DrawAround(screen.cursor - 0)
        BY <2>2, <2>7, Zenon
  <2> QED BY <1>1, <1>2, <1>3, <1>5, <2>3, <2>4, <2>5, <2>8, <2>9,
             EditedLineStands
<1>9. CASE MoveOnScreen
  <2>1. PICK by \in {-1, 1} :
           /\ MoveCursor(by)
               /\ screen' = CursorPosition(screen, screen.cursor + by)
           /\ UNCHANGED drawing
    <3>1. CASE Left /\ screen' = CursorPosition(screen, screen.cursor - 1)
      <4>1. screen.cursor \in Nat
            BY <1>1, ScreenSize DEF IsScreen
      <4>2. screen.cursor - 1 = screen.cursor + (-1)
            BY <4>1
      <4>3. screen' = CursorPosition(screen, screen.cursor + (-1))
            BY <3>1, <4>2
      <4> QED BY <1>9, <3>1, <4>3 DEF MoveOnScreen, Left
    <3>2. CASE Right /\ screen' = CursorPosition(screen, screen.cursor + 1)
          BY <1>9, <3>2 DEF MoveOnScreen, Right
    <3> QED BY <1>9, <3>1, <3>2 DEF MoveOnScreen
  <2> QED BY <1>1, <1>2, <1>5, <2>1, MovedCursorStands
<1>10. CASE RecallOnScreen
  <2>1. (StateMachine # "NEW_COMMAND")'
        BY <1>1, <1>10 DEF RecallOnScreen, Up, Down, console
  <2>2. PICK new \in CommandStructs : new = commands'[commandIdx']
        BY <2>1, NextCommand
  <2>3. PICK s : s = CursorPosition(screen, screen.cursor + new.EndPos)
        OBVIOUS
  <2>4. screen.cursor + new.EndPos \in Int
        BY <1>1, ScreenSize DEF IsScreen, CommandStructs, Fields
  <2>5. IsScreen(s)
        BY <1>1, <2>3, <2>4, CursorMoves
  <2>6. Draw(s)
        BY <1>10, <2>2, <2>3 DEF RecallOnScreen
  <2> QED BY <1>5, <2>1, <2>5, <2>6, DrawnLineStands
<1>11. CASE EnterOnScreen
  <2>1. screen' = NewLine(screen) /\ StateMachine' = "PROCESS_COMMAND"
            /\ at' = at
        BY <1>1, <1>11 DEF EnterOnScreen, Enter, thread
  <2>2. at # "begun"
        BY <1>1 DEF CInv, Control, StatesAt
  <2>3. ~LineWaits'
        BY <2>1, <2>2 DEF LineWaits
  <2>4. IsScreen(screen')
        BY <1>1, <2>1, NewLineIsScreen
  <2> QED BY <2>3, <2>4 DEF LInv
<1> QED BY <1>6, <1>7, <1>8, <1>9, <1>10, <1>11 DEF KeyOnScreen

(* The thread prints the prompt and the answers.                           *)
LEMMA ThreadOnScreenKeeps ==
    LInv /\ CInv' /\ (PromptOnScreen \/ AnswerOnScreen \/ ExitOnScreen)
        => LInv'
<1> SUFFICES ASSUME LInv, CInv', PromptOnScreen \/ AnswerOnScreen \/ ExitOnScreen
             PROVE  LInv'
    OBVIOUS
<1>1. CInv /\ IsScreen(screen)
      BY DEF LInv
<1>2. CASE PromptOnScreen
  <2>1. CASE at' = "begun"
    <3>1. Draw(screen)
          BY <1>2, <2>1 DEF PromptOnScreen
    <3>2. IsScreen(screen') /\ (~over' => LineStands')
          BY <1>1, <2>1, <3>1, DrawnLineStands
    <3> QED BY <3>2 DEF LInv, LineWaits
  <2>2. CASE at' # "begun"
    <3>1. /\ screen' = screen /\ at = "NEW_COMMAND"
              /\ StateMachine' = StateMachine
          BY <1>2, <2>2 DEF PromptOnScreen, NewCommand
    <3>2. StateMachine = "NEW_COMMAND"
          BY <1>1, <3>1 DEF CInv, Control, StatesAt
    <3> QED BY <1>1, <2>2, <3>1, <3>2 DEF LInv, LineWaits
  <2> QED BY <2>1, <2>2
<1>3. CASE AnswerOnScreen
  <2>1. at = "EXECUTE_COMMAND" /\ at' = "executed"
            /\ StateMachine' = StateMachine
        BY <1>3 DEF AnswerOnScreen, ExecuteOther, ExecuteUsage, ExecuteCommand,
                    Goto, console
  <2>2. StateMachine # "WAITING_FOR_COMMAND"
        BY <1>1, <2>1 DEF CInv, Control, StatesAt
  <2>3. IsScreen(screen')
    <3>1. CASE screen' = ClearScreen(screen)
          BY <1>1, <3>1, ScreenIsCleared DEF IsScreen
    <3>2. ASSUME NEW out \in Outputs, screen' = PutString(screen, out)
          PROVE  IsScreen(screen')
      <4>1. Len(out) \in Nat
            BY LineOnScreenAssumption
      <4> QED BY <1>1, <3>2, <4>1, StringKeepsScreen
    <3> QED BY <1>3, <3>1, <3>2 DEF AnswerOnScreen
  <2> QED BY <2>1, <2>2, <2>3 DEF LInv, LineWaits
<1>4. CASE ExitOnScreen
  <2>1. screen' = NewLine(screen) /\ StateMachine' = "NEW_COMMAND"
            /\ at' = "switch"
        BY <1>4 DEF ExitOnScreen, ExitCommand, Goto
  <2>2. IsScreen(screen')
        BY <1>1, <2>1, NewLineIsScreen
  <2> QED BY <2>1, <2>2 DEF LInv, LineWaits
<1> QED BY <1>2, <1>3, <1>4

(* The other steps leave the screen as it is, and the line too, while it   *)
(* is waited for.                                                          *)
LEMMA NotOnScreenKeeps == LInv /\ CInv' /\ NotOnScreen => LInv'
<1> SUFFICES ASSUME LInv, CInv', NotOnScreen PROVE LInv'
    OBVIOUS
<1>1. CInv /\ UNCHANGED <<screen, row, over>>
      BY DEF LInv, NotOnScreen, drawing
<1>2. CASE ProcessCommand
  <2>1. at = "PROCESS_COMMAND" /\ at' \in {"processed", "corrupted"}
            /\ StateMachine' = StateMachine
        BY <1>2 DEF ProcessCommand, Goto
  <2>2. StateMachine # "WAITING_FOR_COMMAND"
        BY <1>1, <2>1 DEF CInv, Control, StatesAt
  <2> QED BY <1>1, <2>1, <2>2 DEF LInv, LineWaits
<1>3. CASE ~ProcessCommand
  <2>1. UNCHANGED <<commands, commandIdx>>
        BY <1>3 DEF NotOnScreen, CtrlC, DownOutOfHistory, Tick, WakeUp,
            ReadState,
                    BeginWaiting, WaitForCommand, BeginExecuting, EndCommand, console
  <2>2. Ccommand' = Ccommand
        BY <2>1 DEF Ccommand
  <2>3. LineWaits' => LineWaits
    <3> SUFFICES ASSUME LineWaits' PROVE LineWaits
        OBVIOUS
    <3>1. CASE CtrlC
          BY <1>1, <3>1 DEF CtrlC, LineWaits, Stopped, thread
    <3>2. CASE DownOutOfHistory
          BY <1>1, <3>2 DEF DownOutOfHistory, LineWaits, Stopped, console
    <3>3. CASE Tick
          BY <1>1, <3>3 DEF Tick, LineWaits, Stopped, console
    <3>4. CASE WakeUp
          BY <1>1, <3>4 DEF WakeUp, LineWaits, Stopped, console, CInv, Control
    <3>5. CASE ReadState
          BY <1>1, <3>5 DEF ReadState, LineWaits, Stopped, Goto, console,
              CInv, Typed, STATES
    <3>6. CASE BeginWaiting
          BY <1>1, <3>6 DEF BeginWaiting, LineWaits, Stopped
    <3>7. CASE WaitForCommand
          BY <1>1, <3>7 DEF WaitForCommand, SleepThen, LineWaits, Stopped,
              console
    <3>8. CASE BeginExecuting
          BY <1>1, <3>8 DEF BeginExecuting, Goto, LineWaits
    <3>9. CASE EndCommand
          BY <1>1, <3>9 DEF EndCommand, Goto, LineWaits
    <3> QED BY <1>3, <3>1, <3>2, <3>3, <3>4, <3>5, <3>6, <3>7, <3>8, <3>9
            DEF NotOnScreen
  <2>4. LineStands => LineStands'
        BY <1>1, <2>2 DEF LineStands
  <2> QED BY <1>1, <2>3, <2>4 DEF LInv
<1> QED BY <1>2, <1>3

(* So do all steps.                                                        *)
LEMMA LineNextKeepsLInv == LInv /\ [LineNext]_lineVars => LInv'
<1> SUFFICES ASSUME LInv, [LineNext]_lineVars PROVE LInv'
    OBVIOUS
<1>1. CInv'
      BY LineStepIsStep, NextKeepsCInv DEF LInv
<1>2. CASE UNCHANGED lineVars
  <2>1. UNCHANGED <<screen, row, over, StateMachine, at, commands, commandIdx>>
        BY <1>2 DEF lineVars, drawing, vars, console, thread
  <2>2. Ccommand' = Ccommand
        BY <2>1 DEF Ccommand
  <2>3. LineStands => LineStands'
        BY <2>1, <2>2 DEF LineStands
  <2>4. LineWaits' => LineWaits
        BY <2>1 DEF LineWaits, Stopped
  <2> QED BY <1>1, <2>1, <2>3, <2>4 DEF LInv
<1>3. CASE LineNext
      BY <1>1, <1>3, KeyOnScreenKeeps, ThreadOnScreenKeeps, NotOnScreenKeeps
          DEF LineNext
<1> QED BY <1>2, <1>3

(* Before the first prompt no line is waited for.                          *)
LEMMA FirstLInv == LineInit => LInv
<1> SUFFICES ASSUME LineInit PROVE LInv
    OBVIOUS
<1>1. CInv /\ IsScreen(screen)
      BY InitCInv, FirstScreen DEF LineInit
<1>2. ~LineWaits
      BY DEF LineInit, Init, LineWaits
<1> QED BY <1>1, <1>2 DEF LInv

(* What can be read on the screen is the line, if it is shown and nothing  *)
(* stands behind it.                                                       *)
LEMMA LineIsRead ==
    ASSUME NEW s, NEW pos, NEW cmd \in CommandStructs, Shows(s, pos, cmd), pos > 0
    PROVE  TextAt(s, pos) = prompt \o cmd.text
<1>1. PICK line : line = prompt \o cmd.text
      OBVIOUS
<1>2. PICK p, len, max \in Nat : p = pos /\ len = Len(line)
          /\ max = MAX_OFFSET /\ p + len <= max
  <2>1. cmd.text \in Seq(Chars)
        BY DEF CommandStructs, Fields
  <2>2. Len(prompt) \in Nat /\ Len(cmd.text) \in Nat
        /\ Len(prompt \o cmd.text) = Len(prompt) + Len(cmd.text)
        BY <2>1, LineIsText
  <2>3. Len(line) \in Nat
        BY <1>1, <2>2
  <2>4. pos \in Nat /\ pos + Len(line) <= MAX_OFFSET
        BY <1>1 DEF Shows
  <2> QED BY <2>3, <2>4, ScreenSize
<1>3. line = [k \in 1 .. len |-> line[k]]
          /\ \A k \in 1 .. len : line[k] # Nothing
  <2>1. cmd.text \in Seq(Chars)
        BY DEF CommandStructs, Fields
  <2> QED BY <1>1, <1>2, <2>1, LineIsText
<1>4. /\ \A k \in 1 .. len : s.cells[p + k - 1] = line[k] /\ line[k] # Nothing
      /\ p + len < MAX_OFFSET => s.cells[p + len] = Nothing
  <2>1. \A k \in 1 .. len : s.cells[p + k - 1] = line[k]
        BY <1>1, <1>2 DEF Shows
  <2>2. \A q \in p + len .. max - 1 : s.cells[q] = Nothing
        BY <1>1, <1>2 DEF Shows
  <2>3. p + len < max => p + len \in p + len .. max - 1
        BY <1>2
  <2> QED BY <1>2, <1>3, <2>1, <2>2, <2>3
<1>5. line = [k \in 1 .. len |-> line[k]] /\ p + len <= MAX_OFFSET
      BY <1>2, <1>3
<1>6. TextAt(s, p) = line
  <2>1. StandsAt(s, p, len, line)
        BY <1>4, <1>5 DEF StandsAt
  <2> QED BY <2>1, TextIsRead
<1> QED BY <1>1, <1>2, <1>6

(* While the console waits for keys the screen shows the prompt and the    *)
(* line, and the cursor stands where the next key works, for every size of *)
(* the screen, every prompt that is shorter than a row and every output.   *)
THEOREM ScreenShowsTheLine == LineSpec => []LineIsShown
<1>1. LineSpec => []LInv
      BY FirstLInv, LineNextKeepsLInv, PTL DEF LineSpec
<1>2. LInv => LineIsShown
  <2> SUFFICES ASSUME LInv, StateMachine = "WAITING_FOR_COMMAND", ~Stopped, ~over
               PROVE  LET line == prompt \o Line IN
                      /\ row % MAX_COLUMNS = 0
                      /\ \A k \in 1 .. Len(line) : screen.cells[row + k - 1] = line[k]
                      /\ row > 0 => TextAt(screen, row) = line
                      /\ Ccommand.EndPos = Len(Line) =>
                            screen.cursor = row + Len(prompt) + Ccommand.CurrentPos
      BY DEF LineIsShown
  <2>1. CInv /\ Shows(screen, row, Ccommand)
            /\ CursorOnLine(screen, row, Ccommand)
        BY DEF LInv, LineWaits, LineStands
  <2>2. Ccommand \in CommandStructs
        BY <2>1, CurrentCommand
  <2>3. row > 0 => TextAt(screen, row) = prompt \o Line
        BY <2>1, <2>2, LineIsRead DEF Line
  <2>4. /\ row \in Nat /\ row % MAX_COLUMNS = 0
        /\ \A k \in 1 .. Len(prompt \o Line) : screen.cells[row + k - 1] = (prompt \o Line)[k]
        /\ screen.cursor = row + Len(prompt) + Ccommand.CurrentPos
                               + (Len(Line) - Ccommand.EndPos)
        BY <2>1 DEF Shows, CursorOnLine, Line
  <2>5. ASSUME Ccommand.EndPos = Len(Line)
        PROVE  screen.cursor = row + Len(prompt) + Ccommand.CurrentPos
    <3>1. Line \in Seq(Chars) /\ Ccommand.CurrentPos \in Nat
          BY <2>2 DEF Line, CommandStructs, Fields
    <3>2. PICK r, p, t, cur \in Nat :
             r = row /\ p = Len(prompt) /\ t = Len(Line) /\ cur = Ccommand.CurrentPos
          BY <2>4, <3>1, LineIsText
    <3>3. screen.cursor = r + p + cur + (t - t)
          BY <2>4, <2>5, <3>2
    <3> QED BY <3>2, <3>3
  <2> QED BY <2>3, <2>4, <2>5
<1> QED BY <1>1, <1>2, PTL

-----------------------------------------------------------------------------
(***************************************************************************)
(* What CommandToScreen clears behind the screen.                          *)
(***************************************************************************)

(* A line that is looked for from a place on the screen begins on it, and  *)
(* clearing for it ends before the kernel.                                 *)
LEMMA ClearingEndsInTime ==
    ASSUME NEW s, IsScreen(s), NEW cmd \in CommandStructs,
           cmd.CurrentPos <= s.cursor
    PROVE  ~ClearsKernel(s, cmd)
<1>1. PICK cur, max, line \in Nat :
         cur = cmd.CurrentPos /\ max = MAX_OFFSET /\ line = MaxLine /\ cur <= line
  <2>1. /\ cmd.text \in Seq(Chars) /\ cmd.CurrentPos \in Nat
        /\ cmd.CurrentPos <= cmd.EndPos /\ cmd.EndPos \in {0, Len(cmd.text)}
        /\ Len(cmd.text) <= MaxLine /\ MaxLine \in Nat
        BY ConsoleAssumption DEF CommandStructs, Fields
  <2>2. PICK len \in Nat : len = Len(cmd.text)
        BY <2>1, LenProperties
  <2>3. cmd.CurrentPos <= MaxLine
        BY <2>1, <2>2
  <2> QED BY <2>1, <2>3, ScreenSize
<1>2. PICK x \in Nat : x = s.cursor - cmd.CurrentPos
  <2>1. s.cursor \in Nat
        BY ScreenSize DEF IsScreen
  <2> QED BY <1>1, <2>1
<1>3. PICK t : t = CursorPosition(s, s.cursor - cmd.CurrentPos)
      OBVIOUS
<1>4. PICK c \in Nat : c = t.cursor /\ c <= max
  <2>1. t.cursor \in 0 .. max
        BY <1>1, <1>2, <1>3, CursorStaysOnScreen
  <2> QED BY <2>1
<1>5. PICK pos \in Nat : pos = LineStart(s, cmd) /\ pos <= max
  <2>1. LineStart(s, cmd) = (c \div MAX_COLUMNS) * MAX_COLUMNS
        BY <1>3, <1>4, Zenon DEF LineStart, GetLinePosition
  <2>2. PICK r : r = (c \div MAX_COLUMNS) * MAX_COLUMNS
        OBVIOUS
  <2>3. r \in Nat /\ r <= c
        BY <2>2, RowStarts
  <2>4. r <= max
        BY <1>4, <2>3
  <2> QED BY <2>1, <2>2, <2>3, <2>4
<1>6. PICK d \in Nat \ {0} : d = MAX_COLUMNS
      BY ScreenSize
<1>7. Len(prompt) \div d = 0
  <2>1. PICK len \in 0 .. d - 1 : len = Len(prompt)
        BY <1>6, LineOnScreenAssumption
  <2>2. (0 * d + len) \div d = 0
        BY QuotientAndRest
  <2>3. 0 * d + len = len
        OBVIOUS
  <2> QED BY <2>1, <2>2, <2>3, Zenon
<1>8. EndOfClearing(pos, cmd) = (pos + cur + 0 + 1) * d - 1
      BY <1>1, <1>6, <1>7, Zenon DEF EndOfClearing
<1>9. (pos + cur + 0 + 1) * d <= (max + line + 1) * d
  <2>1. PICK n, m \in Nat : n = pos + cur + 0 + 1 /\ m = max + line + 1 /\ n <= m
        BY <1>1, <1>5
  <2>2. (m - n) * d >= 0
        BY <2>1
  <2>3. (m - n) * d = m * d - n * d
        OBVIOUS
  <2>4. m * d \in Int /\ n * d \in Int
        OBVIOUS
  <2>5. n * d <= m * d
        BY <2>2, <2>3, <2>4
  <2> QED BY <2>1, <2>5, Zenon
<1>10. FreeCells \in Nat /\ FreeCells >= (max + line + 1) * d
      BY <1>1, <1>6, LineOnScreenAssumption
<1>11. ~(EndOfClearing(pos, cmd) > FreeCells)
  <2>1. PICK e, f, n \in Int : n = (pos + cur + 0 + 1) * d /\ e = n - 1
            /\ f = (max + line + 1) * d
        OBVIOUS
  <2>2. ~(e > FreeCells)
        BY <1>9, <1>10, <2>1
  <2> QED BY <1>8, <2>1, <2>2, Zenon
<1> QED BY <1>5, <1>11, Zenon DEF ClearsKernel

(* No key but Up and Down, and no prompt, lets the line be looked for      *)
(* before the screen while it is shown.                                    *)
LEMMA StepOutlivesTheLine ==
    LInv /\ CInv' /\ LineNext /\ destroyed' =>
        \/ over
        \/ /\ RecallOnScreen
           /\ screen.cursor + commands'[commandIdx'].EndPos > MAX_OFFSET
<1> SUFFICES ASSUME LInv, CInv', LineNext, destroyed', ~over,
                    ~(/\ RecallOnScreen
                      /\ screen.cursor + commands'[commandIdx'].EndPos > MAX_OFFSET)
             PROVE  FALSE
    OBVIOUS
<1>1. CInv /\ IsScreen(screen) /\ screen.cursor \in Nat /\ ~destroyed
      BY ScreenSize DEF LInv, LineNext, IsScreen
<1>2. KeyOnScreen \/ PromptOnScreen
  <2>1. ASSUME UNCHANGED drawing PROVE FALSE
        BY <1>1, <2>1 DEF drawing
  <2> QED BY <2>1 DEF LineNext, AnswerOnScreen, ExitOnScreen, NotOnScreen
<1>3. ASSUME NEW s, IsScreen(s), destroyed' = ClearsKernel(s, commands'[commandIdx']),
             commands'[commandIdx'] \in CommandStructs,
             commands'[commandIdx'].CurrentPos <= s.cursor
      PROVE  FALSE
      BY <1>3, ClearingEndsInTime
<1>4. CASE PromptOnScreen
  <2>1. at' = "begun" /\ NewCommand /\ Draw(screen)
        BY <1>1, <1>4 DEF PromptOnScreen, drawing
  <2>2. commands'[commandIdx'] \in CommandStructs
        BY <2>1, NextCommand
  <2>3. commands'[commandIdx'].CurrentPos = 0
    <3>1. commandIdx' = commandIdx + 1 /\ commandIdx + 1 \in Slots
          /\ commands' = [commands EXCEPT ![commandIdx + 1].CurrentPos = 0,
                                          ![commandIdx + 1].EndPos = 0,
                                          ![commandIdx + 1].args = <<>>]
          BY <2>1 DEF NewCommand, Goto
    <3>2. commands \in [Slots -> Fields]
          BY <1>1 DEF CInv, Typed, CommandStructs
    <3>3. PICK idx \in Slots : idx = commandIdx + 1
          BY <3>1
    <3>4. PICK old \in Fields : old = commands[idx]
          BY <3>2
    <3>5. PICK new : new = [old EXCEPT !.CurrentPos = 0, !.EndPos = 0,
                                       !.args = <<>>]
          OBVIOUS
    <3>6. new.CurrentPos = 0
          BY <3>4, <3>5 DEF Fields
    <3>7. commands'[idx] = new
          BY <3>1, <3>2, <3>3, <3>4, <3>5
    <3>8. commandIdx' = idx
          BY <3>1, <3>3
    <3> QED BY <3>6, <3>7, <3>8
  <2>4. destroyed' = ClearsKernel(screen, commands'[commandIdx'])
        BY <2>1 DEF Draw, Remember
  <2>5. commands'[commandIdx'].CurrentPos <= screen.cursor
        BY <1>1, <2>3
  <2> QED BY <1>1, <1>3, <2>2, <2>4, <2>5
<1>5. CASE KeyOnScreen
  <2>1. /\ StateMachine = "WAITING_FOR_COMMAND" /\ ~Stopped /\ LineStands
        BY <1>5 DEF KeyOnScreen, LInv, LineWaits
  <2>2. PICK cmd \in CommandStructs : cmd = Ccommand
        BY <1>1, <2>1, CurrentCommand
  <2>3. commandIdx \in Slots /\ commands \in [Slots -> CommandStructs]
        /\ cmd \in Fields
        BY <1>1, <2>1, CurrentCommand DEF CInv, Typed, CommandStructs
  <2>4. PICK cur \in Nat : cur = cmd.CurrentPos /\ cur + 1 <= screen.cursor
    <3>1. screen.cursor = row + Len(prompt) + cmd.CurrentPos
                              + (Len(cmd.text) - cmd.EndPos)
          /\ row \in Nat
          BY <2>1, <2>2 DEF LineStands, Shows, CursorOnLine
    <3>2. /\ cmd.text \in Seq(Chars) /\ cmd.CurrentPos \in Nat
          /\ cmd.EndPos \in Nat /\ cmd.EndPos \in {0, Len(cmd.text)}
          BY DEF CommandStructs, Fields
    <3>3. PICK r, p, t, c, e \in Nat :
             /\ r = row /\ p = Len(prompt) /\ t = Len(cmd.text)
             /\ c = cmd.CurrentPos /\ e = cmd.EndPos /\ p >= 1 /\ e <= t
          BY <3>1, <3>2, LineIsText
    <3>4. screen.cursor = r + p + c + (t - e)
          BY <3>1, <3>3
    <3> QED BY <3>3, <3>4
  <2>5. (StateMachine # "NEW_COMMAND")' => commands'[commandIdx'] \in CommandStructs
        BY NextCommand
  <2>6. CASE TypeOnScreen
    <3>1. PICK c \in Chars : WriteIntoComand(c) /\ Draw(screen)
          BY <2>6 DEF TypeOnScreen
    <3>2. PICK text : Edit([cmd EXCEPT !.text = text, !.CurrentPos = @ + 1,
                                       !.EndPos = Len(text)])
          BY <2>2, <3>1 DEF WriteIntoComand
    <3>3. commands'[commandIdx'].CurrentPos = cur + 1
          /\ StateMachine' = StateMachine
          BY <2>3, <2>4, <3>2 DEF Edit, Fields
    <3> QED BY <1>1, <1>3, <2>1, <2>4, <2>5, <3>1, <3>3 DEF Draw, Remember
  <2>7. CASE BackSpaceOnScreen \/ DeleteOnScreen
    <3>1. PICK n \in Int : DrawAround(n)
          BY <1>1, <2>7 DEF BackSpaceOnScreen, DeleteOnScreen
    <3>2. /\ commands'[commandIdx'].CurrentPos \in {cur, cur - 1}
          /\ StateMachine' = StateMachine
      <4>1. CASE BackSpace
        <5>1. PICK text : Edit([cmd EXCEPT !.text = text, !.CurrentPos = @ - 1,
                                           !.EndPos = @ - 1])
              BY <2>2, <4>1 DEF BackSpace
        <5> QED BY <2>3, <2>4, <5>1 DEF Edit, Fields
      <4>2. CASE Delete
        <5>1. PICK text : Edit([cmd EXCEPT !.text = text, !.EndPos = @ - 1])
              BY <2>2, <4>2 DEF Delete
        <5> QED BY <2>3, <2>4, <5>1 DEF Edit, Fields
      <4> QED BY <2>7, <4>1, <4>2 DEF BackSpaceOnScreen, DeleteOnScreen
    <3>3. commands'[commandIdx'].CurrentPos <= screen.cursor
          BY <1>1, <2>4, <3>2
    <3> QED BY <1>1, <1>3, <2>1, <2>5, <3>1, <3>2, <3>3 DEF DrawAround, Remember
  <2>8. CASE RecallOnScreen
    <3>1. (StateMachine # "NEW_COMMAND")'
          BY <2>1, <2>8 DEF RecallOnScreen, Up, Down, console
    <3>2. PICK new \in CommandStructs : new = commands'[commandIdx']
          BY <2>5, <3>1
    <3>3. PICK end, pos \in Nat :
             end = new.EndPos /\ pos = new.CurrentPos /\ pos <= end
          BY DEF CommandStructs, Fields
    <3>4. PICK at2 \in Nat : at2 = screen.cursor + end
          BY <1>1
    <3>5. at2 \in 0 .. MAX_OFFSET
      <4>1. ~(at2 > MAX_OFFSET)
            BY <2>8, <3>2, <3>3, <3>4
      <4> QED BY <4>1, ScreenSize
    <3>6. PICK s : s = CursorPosition(screen, at2)
          OBVIOUS
    <3>7. IsScreen(s) /\ s.cursor = at2
          BY <1>1, <3>5, <3>6, CursorMoves
    <3>8. Draw(s)
          BY <2>8, <3>2, <3>3, <3>4, <3>6 DEF RecallOnScreen
    <3>9. pos <= s.cursor
          BY <1>1, <3>3, <3>4, <3>7
    <3> QED BY <1>3, <3>2, <3>3, <3>7, <3>8, <3>9 DEF Draw, Remember
  <2>9. CASE MoveOnScreen \/ EnterOnScreen
        BY <1>1, <2>9 DEF MoveOnScreen, EnterOnScreen, drawing
  <2> QED BY <1>5, <2>6, <2>7, <2>8, <2>9 DEF KeyOnScreen
<1> QED BY <1>2, <1>4, <1>5

(* The stack, the kernel and the page tables outlive every line that stays *)
(* on the screen, whatever is edited, recalled and answered and wherever it*)
(* stands: only a line that has gone over the end, or a recall too near to *)
(* it, makes CommandToScreen clear them.                                   *)
THEOREM KernelOutlivesTheScreen == LineSpec => KernelOutlivesTheLine
<1> DEFINE Outlived ==
        destroyed' =>
            \/ destroyed \/ over
            \/ /\ RecallOnScreen
               /\ screen.cursor + commands'[commandIdx'].EndPos > MAX_OFFSET
<1>1. LineSpec => []LInv
      BY FirstLInv, LineNextKeepsLInv, PTL DEF LineSpec
<1>2. LInv /\ [LineNext]_lineVars => [Outlived]_lineVars
  <2> SUFFICES ASSUME LInv, LineNext, destroyed' PROVE Outlived
      OBVIOUS
  <2>1. CInv'
        BY LineStepIsStep, NextKeepsCInv DEF LInv
  <2> QED BY <2>1, StepOutlivesTheLine
<1> QED BY <1>1, <1>2, PTL DEF LineSpec, KernelOutlivesTheLine, Outlived
=============================================================================
