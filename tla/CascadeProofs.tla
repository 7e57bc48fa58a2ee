--------------------------- MODULE CascadeProofs ----------------------------
(* Proofs about Cascade, for any number of layers and messages and any size  *)
(* of the channel.                                                           *)
EXTENDS Cascade, SequenceTheorems, TLAPS

USE CascadeAssumption

(* A layer's permit is in the semaphore or with its one turn.                *)
PermitInv == \A l \in Inner : permit[l] + Len(turns[l]) = 1

(* The change the watcher holds starts where its layer's offset is, however  *)
(* the file has grown since; nothing is read that is not in a file.          *)
WatchInv ==
  /\ \A l \in Layer : offset[l] <= size[l] /\ found[l] <= size[l]
  /\ \A l \in Layer \ watched : offset[l] = 0
  /\ sending # <<>> => LET change == sending[1] IN
       /\ change.layer \in watched
       /\ change.from = offset[change.layer]
       /\ change.from < change.to /\ change.to <= size[change.layer]

(* One copy of a chunk is the scanner's, another the watcher's.              *)
CopyInv ==
  \A l \in Layer : \A c \in 1..size[l] :
    copies[l][c] <= (IF scanner[l] = "done" /\ c <= found[l] THEN 1 ELSE 0)
                    + (IF c <= offset[l] THEN 1 ELSE 0)

-----------------------------------------------------------------------------
(* About sequences.                                                          *)

LEMMA RemoveAtShortens ==
  ASSUME NEW S, NEW s \in Seq(S), NEW i \in DOMAIN s
  PROVE  RemoveAt(s, i) \in Seq(S) /\ Len(RemoveAt(s, i)) = Len(s) - 1
<1> DEFINE before == SubSeq(s, 1, i - 1)
           after == SubSeq(s, i + 1, Len(s))
<1>1. i \in 1..Len(s) /\ Len(s) \in Nat /\ \A j \in 1..Len(s) : s[j] \in S
  OBVIOUS
<1>2. before \in Seq(S) /\ Len(before) = i - 1
  <2>1. \A j \in 1..(i - 1) : s[j] \in S
    BY <1>1
  <2> QED
    BY <1>1, <2>1, SubSeqProperties
<1>3. after \in Seq(S) /\ Len(after) = Len(s) - i
  <2>1. \A j \in (i + 1)..Len(s) : s[j] \in S
    BY <1>1
  <2> QED
    BY <1>1, <2>1, SubSeqProperties
<1>4. RemoveAt(s, i) = before \o after
  BY DEF RemoveAt
<1> HIDE DEF before, after
<1> QED
  BY <1>1, <1>2, <1>3, <1>4, ConcatProperties

LEMMA RecountedIsCounted ==
  ASSUME NEW s \in Seq(Nat), NEW change \in Change
  PROVE  /\ Recounted(s, change) \in Seq(Nat)
         /\ Len(Recounted(s, change)) = Len(s)
         /\ \A c \in 1..Len(s) :
              Recounted(s, change)[c] =
                IF change.from < c /\ c <= change.to THEN s[c] + 1 ELSE s[c]
<1>1. DOMAIN s = 1..Len(s) /\ Len(s) \in Nat /\ \A c \in 1..Len(s) : s[c] \in Nat
  OBVIOUS
<1>2. Recounted(s, change) \in [1..Len(s) -> Nat]
  BY <1>1 DEF Recounted
<1>3. Recounted(s, change) \in Seq(Nat)
  BY <1>1, <1>2, SeqDef
<1>4. Len(Recounted(s, change)) = Len(s)
  BY <1>1, <1>2, <1>3, LenProperties
<1> QED
  BY <1>1, <1>3, <1>4 DEF Recounted

-----------------------------------------------------------------------------
(* What an action does to files and copies, whichever layer it is for.       *)

Writes(l) ==
  /\ size' \in [Layer -> Nat]
  /\ \A m \in Layer : size'[m] = IF m = l THEN size[m] + 1 ELSE size[m]
  /\ \A m \in Layer : \A c \in 1..size[m] : copies'[m][c] = copies[m][c]
  /\ copies'[l][size[l] + 1] = 0
  /\ copies' \in [Layer -> Seq(Nat)]
  /\ \A m \in Layer : Len(copies'[m]) = size'[m]

LEMMA WriteIsOneMore ==
  ASSUME TypeOK, NEW l \in Layer, Write(l)
  PROVE  Writes(l)
<1> DEFINE s == copies[l]
<1>1. s \in Seq(Nat) /\ Len(s) = size[l] /\ size[l] \in Nat
  BY DEF TypeOK
<1>2. /\ Append(s, 0) \in Seq(Nat)
      /\ Len(Append(s, 0)) = Len(s) + 1
      /\ \A c \in 1..Len(s) : Append(s, 0)[c] = s[c]
      /\ Append(s, 0)[Len(s) + 1] = 0
  BY <1>1, AppendProperties
<1>3. copies' = [copies EXCEPT ![l] = Append(s, 0)]
  BY DEF Write
<1> HIDE DEF s
<1>4. \A m \in Layer : copies'[m] = IF m = l THEN Append(s, 0) ELSE copies[m]
  BY <1>3 DEF TypeOK
<1>5. copies' \in [Layer -> Seq(Nat)]
  BY <1>2, <1>3 DEF TypeOK
<1>6. \A m \in Layer : size'[m] = IF m = l THEN size[m] + 1 ELSE size[m]
  BY DEF Write, TypeOK
<1>7. \A m \in Layer : Len(copies'[m]) = size'[m]
  BY <1>1, <1>2, <1>4, <1>6 DEF TypeOK
<1>8. \A m \in Layer : \A c \in 1..size[m] : copies'[m][c] = copies[m][c]
  <2> TAKE m \in Layer
  <2>1. CASE m = l
    BY <2>1, <1>1, <1>2, <1>4 DEF s
  <2>2. CASE m # l
    BY <2>2, <1>4
  <2> QED
    BY <2>1, <2>2
<1>9. copies'[l][size[l] + 1] = 0
  BY <1>1, <1>2, <1>4
<1>10. size' \in [Layer -> Nat]
  BY DEF Write, TypeOK
<1> QED
  BY <1>5, <1>6, <1>7, <1>8, <1>9, <1>10 DEF Writes

Counts(change) ==
  /\ channel' \in Seq(Change) /\ Len(channel') <= ChannelSize
  /\ copies' \in [Layer -> Seq(Nat)]
  /\ \A m \in Layer : Len(copies'[m]) = Len(copies[m])
  /\ \A m \in Layer : \A c \in 1..size[m] :
       copies'[m][c] =
         IF m = change.layer /\ change.from < c /\ c <= change.to
           THEN copies[m][c] + 1 ELSE copies[m][c]

LEMMA SendCounts ==
  ASSUME TypeOK, NEW change \in Change, Send(change)
  PROVE  Counts(change)
<1> DEFINE l == change.layer
           s == copies[l]
           t == Recounted(s, change)
<1>1. l \in Layer /\ change.from \in Nat /\ change.to \in Nat
  BY DEF Change
<1>2. s \in Seq(Nat) /\ Len(s) = size[l]
  BY <1>1 DEF TypeOK
<1>3. /\ t \in Seq(Nat) /\ Len(t) = Len(s)
      /\ \A c \in 1..Len(s) :
           t[c] = IF change.from < c /\ c <= change.to THEN s[c] + 1 ELSE s[c]
  BY <1>2, RecountedIsCounted
<1>4. copies' = [copies EXCEPT ![l] = t]
  BY DEF Send
<1>5. channel' \in Seq(Change) /\ Len(channel') <= ChannelSize
  <2>1. channel \in Seq(Change) /\ Len(channel) \in Nat
    BY DEF TypeOK
  <2> QED
    BY <2>1, AppendProperties DEF Send
<1> HIDE DEF t
<1>6. \A m \in Layer : copies'[m] = IF m = l THEN t ELSE copies[m]
  BY <1>1, <1>4 DEF TypeOK
<1>7. copies' \in [Layer -> Seq(Nat)]
  BY <1>1, <1>3, <1>4 DEF TypeOK
<1> HIDE DEF l
<1>8. \A m \in Layer : \A c \in 1..size[m] :
        copies'[m][c] = IF m = l /\ change.from < c /\ c <= change.to
                          THEN copies[m][c] + 1 ELSE copies[m][c]
  BY <1>2, <1>3, <1>6
<1>9. \A m \in Layer : Len(copies'[m]) = Len(copies[m])
  BY <1>3, <1>6
<1> QED
  BY <1>5, <1>7, <1>8, <1>9 DEF Counts, l

-----------------------------------------------------------------------------
(* One case for each action, with its layer and its place in a sequence.     *)
LEMMA NextCases ==
  ASSUME NEW P, [Next]_vars,
         Converse => P, SendChange => P, Receive => P, UNCHANGED vars => P,
         \A l \in Layer : FindFile(l) \/ SendFile(l) => P,
         \A l \in Layer : scan_for_new_files(l) \/ Poll(l) => P,
         \A l \in Inner : \A i \in DOMAIN waiting[l] : Acquire(l, i) => P,
         \A l \in Inner : \A i \in DOMAIN turns[l] :
           Respond(l, i) \/ Fail(l, i) \/ End(l, i) => P
  PROVE  P
BY DEF Next, Scanners, Watcher, Tasks, Task

LEMMA InitInv == Init => TypeOK /\ PermitInv /\ WatchInv /\ CopyInv
<1> SUFFICES ASSUME Init
             PROVE  TypeOK /\ PermitInv /\ WatchInv /\ CopyInv
  OBVIOUS
<1>1. TypeOK
  BY DEF Init, TypeOK
<1>2. PermitInv /\ WatchInv /\ CopyInv
  BY DEF Init, PermitInv, WatchInv, CopyInv
<1> QED
  BY <1>1, <1>2

(* The types go with the permits: a permit given back is one that was taken. *)
LEMMA StepType ==
  ASSUME TypeOK, PermitInv, [Next]_vars
  PROVE  TypeOK' /\ PermitInv'
<1> USE DEF files, scan, watch, tasks
<1>1. ASSUME Converse
      PROVE  TypeOK' /\ PermitInv'
  <2>1. Bottom \in Layer /\ Writes(Bottom)
    BY <1>1, WriteIsOneMore DEF Converse, Layer
  <2> QED
    BY <1>1, <2>1 DEF Converse, Writes, TypeOK, PermitInv
<1>2. ASSUME NEW l \in Layer, FindFile(l) \/ SendFile(l)
      PROVE  TypeOK' /\ PermitInv'
  <2>1. CASE FindFile(l)
    BY <2>1 DEF FindFile, TypeOK, PermitInv
  <2>2. CASE SendFile(l)
    <3> DEFINE change == [layer |-> l, from |-> 0, to |-> found[l]]
    <3>1. change \in Change
      BY DEF Change, TypeOK
    <3>2. Counts(change)
      BY <2>2, <3>1, SendCounts DEF SendFile
    <3> HIDE DEF change
    <3> QED
      BY <2>2, <3>2 DEF SendFile, Counts, TypeOK, PermitInv
  <2> QED
    BY <1>2, <2>1, <2>2
<1>3. ASSUME NEW l \in Layer, scan_for_new_files(l) \/ Poll(l)
      PROVE  TypeOK' /\ PermitInv'
  <2>1. CASE scan_for_new_files(l)
    BY <2>1 DEF scan_for_new_files, TypeOK, PermitInv
  <2>2. CASE Poll(l)
    <3>1. [layer |-> l, from |-> offset[l], to |-> size[l]] \in Change
      BY DEF Change, TypeOK
    <3>2. sending' \in Seq(Change) /\ Len(sending') = 1
      BY <2>2, <3>1 DEF Poll
    <3> QED
      BY <2>2, <3>2 DEF Poll, TypeOK, PermitInv
  <2> QED
    BY <1>3, <2>1, <2>2
<1>4. ASSUME SendChange
      PROVE  TypeOK' /\ PermitInv'
  <2>1. sending[1] \in Change
    BY <1>4 DEF SendChange, TypeOK
  <2>2. Counts(sending[1])
    BY <1>4, <2>1, SendCounts DEF SendChange
  <2>3. offset' \in [Layer -> Nat]
    BY <1>4, <2>1 DEF SendChange, Advanced, TypeOK, Change
  <2> QED
    BY <1>4, <2>2, <2>3 DEF SendChange, Counts, TypeOK, PermitInv
<1>5. ASSUME Receive
      PROVE  TypeOK' /\ PermitInv'
  <2>1. /\ Head(channel) \in Change
        /\ Tail(channel) \in Seq(Change) /\ Len(Tail(channel)) <= ChannelSize
    BY <1>5 DEF Receive, TypeOK
  <2>2. CASE Head(channel).layer = Top
    BY <1>5, <2>1, <2>2 DEF Receive, TypeOK, PermitInv
  <2>3. CASE Head(channel).layer # Top
    <3> DEFINE l == Head(channel).layer + 1
    <3>1. l \in Inner
      BY <2>1, <2>3 DEF Change, Layer, Inner
    <3>2. Append(waiting[l], Head(channel)) \in Seq(Change)
      BY <2>1, <3>1, AppendProperties DEF TypeOK
    <3>3. waiting' = [waiting EXCEPT ![l] = Append(@, Head(channel))]
          /\ UNCHANGED cores
      BY <1>5, <2>3 DEF Receive
    <3>4. waiting' \in [Inner -> Seq(Change)]
      BY <3>1, <3>2, <3>3 DEF TypeOK
    <3> QED
      BY <1>5, <2>1, <3>3, <3>4 DEF Receive, TypeOK, PermitInv
  <2> QED
    BY <2>2, <2>3
<1>6. ASSUME NEW l \in Inner, NEW i \in DOMAIN waiting[l], Acquire(l, i)
      PROVE  TypeOK' /\ PermitInv'
  <2>1. waiting' \in [Inner -> Seq(Change)]
    <3>1. RemoveAt(waiting[l], i) \in Seq(Change)
      BY RemoveAtShortens DEF TypeOK
    <3> QED
      BY <1>6, <3>1 DEF Acquire, TypeOK
  <2>2. CASE permit[l] > 0 /\ TakePermit(l) /\ StartTurn(l)
    <3>1. PICK sleeps \in BOOLEAN :
            /\ asleep' = IF sleeps THEN asleep \cup {l} ELSE asleep
            /\ add_user_message(l, sleeps)
            /\ turns' = [turns EXCEPT ![l] =
                 Append(@, IF sleeps THEN "ending" ELSE "calling")]
      BY <2>2 DEF StartTurn
    <3>2. l \in Layer
      BY DEF Layer, Inner
    <3>3. Writes(l)
      BY <3>1, <3>2, WriteIsOneMore DEF add_user_message
    <3>4. permit[l] = 1 /\ Len(turns[l]) = 0
      BY <2>2 DEF TypeOK, PermitInv
    <3>5. permit' = [permit EXCEPT ![l] = 0]
      BY <2>2, <3>4 DEF TakePermit, TypeOK
    <3>6. PICK turn \in {"calling", "ending"} :
            turns' = [turns EXCEPT ![l] = Append(@, turn)]
      BY <3>1
    <3>7. Append(turns[l], turn) \in Seq({"calling", "ending"})
          /\ Len(Append(turns[l], turn)) = 1
      BY <3>4, AppendProperties DEF TypeOK
    <3>8. TypeOK'
      <4>1. turns' \in [Inner -> Seq({"calling", "ending"})]
            /\ permit' \in [Inner -> {0, 1}] /\ asleep' \subseteq Inner
        BY <3>1, <3>5, <3>6, <3>7 DEF TypeOK
      <4> QED
        BY <1>6, <2>1, <3>3, <4>1 DEF Acquire, Writes, TypeOK
    <3>9. PermitInv'
      BY <3>5, <3>6, <3>7 DEF PermitInv, TypeOK
    <3> QED
      BY <3>8, <3>9
  <2>3. CASE UNCHANGED <<permit, turns, size, asleep, copies>>
    BY <1>6, <2>1, <2>3 DEF Acquire, TypeOK, PermitInv
  <2> QED
    BY <1>6, <2>2, <2>3 DEF Acquire
<1>7. ASSUME NEW l \in Inner, NEW i \in DOMAIN turns[l],
             Respond(l, i) \/ Fail(l, i) \/ End(l, i)
      PROVE  TypeOK' /\ PermitInv'
  <2> DEFINE turn == [turns[l] EXCEPT ![i] = "ending"]
  <2>1. turn \in Seq({"calling", "ending"}) /\ Len(turn) = Len(turns[l])
    BY ExceptSeq DEF TypeOK
  <2>2. CASE Respond(l, i)
    <3>1. l \in Layer
      BY DEF Layer, Inner
    <3>2. Writes(l)
      BY <2>2, <3>1, WriteIsOneMore DEF Respond
    <3>3. turns' = [turns EXCEPT ![l] = turn]
      BY <2>2 DEF Respond, TypeOK
    <3> HIDE DEF turn
    <3>4. injected' \subseteq Inner
      BY <2>2 DEF Respond, TypeOK
    <3>5. turns' \in [Inner -> Seq({"calling", "ending"})] /\ PermitInv'
      BY <2>1, <2>2, <3>3 DEF Respond, TypeOK, PermitInv
    <3> QED
      BY <2>2, <3>2, <3>4, <3>5 DEF Respond, Writes, TypeOK
  <2>3. CASE Fail(l, i)
    <3>1. turns' = [turns EXCEPT ![l] = turn]
      BY <2>3 DEF Fail, TypeOK
    <3> HIDE DEF turn
    <3> QED
      BY <2>1, <2>3, <3>1 DEF Fail, TypeOK, PermitInv
  <2>4. CASE End(l, i)
    <3>1. /\ RemoveAt(turns[l], i) \in Seq({"calling", "ending"})
          /\ Len(RemoveAt(turns[l], i)) = Len(turns[l]) - 1
      BY RemoveAtShortens DEF TypeOK
    <3>2. Len(turns[l]) = 1 /\ permit[l] = 0
      <4>1. turns[l] \in Seq({"calling", "ending"}) /\ permit[l] \in {0, 1}
        BY DEF TypeOK
      <4>2. Len(turns[l]) \in Nat /\ i \in 1..Len(turns[l])
        BY <4>1
      <4>3. permit[l] + Len(turns[l]) = 1
        BY DEF PermitInv
      <4> DEFINE n == Len(turns[l])
                 p == permit[l]
      <4>4. p \in {0, 1} /\ n \in Nat /\ n > 0 /\ p + n = 1
        BY <4>1, <4>2, <4>3
      <4> HIDE DEF n, p
      <4>5. n = 1 /\ p = 0
        BY <4>4
      <4> QED
        BY <4>5 DEF n, p
    <3>3. permit' = [permit EXCEPT ![l] = 1]
      BY <2>4, <3>2 DEF End, TypeOK
    <3>4. turns' = [turns EXCEPT ![l] = RemoveAt(turns[l], i)]
      BY <2>4 DEF End, TypeOK
    <3> QED
      BY <2>4, <3>1, <3>2, <3>3, <3>4 DEF End, TypeOK, PermitInv
  <2> QED
    BY <1>7, <2>2, <2>3, <2>4
<1>8. ASSUME UNCHANGED vars
      PROVE  TypeOK' /\ PermitInv'
  BY <1>8 DEF vars, TypeOK, PermitInv
<1> QED
  BY <1>1, <1>2, <1>3, <1>4, <1>5, <1>6, <1>7, <1>8, NextCases

LEMMA Numbers ==
  ASSUME TypeOK, NEW m \in Layer
  PROVE  /\ size[m] \in Nat /\ offset[m] \in Nat /\ found[m] \in Nat
         /\ start[m] \in Nat
         /\ \A c \in 1..size[m] : copies[m][c] \in Nat
BY DEF TypeOK

(* What the files, the scanners and the watcher do to the chunks sent: the   *)
(* other actions only write.                                                 *)
LEMMA OnlyWrites ==
  ASSUME TypeOK, PermitInv, NEW l \in Layer,
         Write(l) \/ UNCHANGED <<size, copies>>,
         UNCHANGED <<scan, watch>>, WatchInv, CopyInv, NothingSkipped
  PROVE  WatchInv' /\ CopyInv' /\ NothingSkipped'
<1> USE DEF scan, watch
<1>1. CASE Write(l)
  <2>1. Writes(l)
    BY <1>1, WriteIsOneMore
  <2>2. \A m \in Layer : \A c \in 1..size'[m] :
          c \in 1..size[m] \/ (m = l /\ c = size[l] + 1)
    BY <2>1, Numbers DEF Writes
  <2>3. WatchInv'
    <3>1. \A m \in Layer : size[m] <= size'[m]
      BY <2>1, Numbers DEF Writes
    <3>2. \A m \in Layer : offset[m] <= size'[m] /\ found[m] <= size'[m]
      <4> TAKE m \in Layer
      <4>1. size[m] <= size'[m] /\ offset[m] <= size[m] /\ found[m] <= size[m]
        BY <3>1 DEF WatchInv
      <4>2. size'[m] \in Nat
        BY <2>1 DEF Writes
      <4> QED
        BY <4>1, <4>2, Numbers
    <3>3. sending # <<>> => sending[1].to <= size'[sending[1].layer]
      <4> SUFFICES ASSUME sending # <<>>
                   PROVE  sending[1].to <= size'[sending[1].layer]
        OBVIOUS
      <4>1. sending[1] \in Change
        BY DEF TypeOK
      <4>2. sending[1].layer \in Layer /\ sending[1].to \in Nat
        BY <4>1 DEF Change
      <4>3. sending[1].to <= size[sending[1].layer]
        BY DEF WatchInv
      <4>4. size'[sending[1].layer] \in Nat
        BY <4>2, <2>1 DEF Writes
      <4> QED
        BY <4>2, <4>3, <4>4, <3>1, Numbers
    <3> QED
      BY <3>2, <3>3 DEF WatchInv
  <2>4. \A m \in Layer : \A c \in 1..size[m] : copies'[m][c] = copies[m][c]
    BY <2>1 DEF Writes
  <2>5. size[l] + 1 > offset[l] /\ copies'[l][size[l] + 1] = 0
    BY <2>1, Numbers DEF Writes, WatchInv
  <2>6. CopyInv'
    BY <2>2, <2>4, <2>5 DEF CopyInv
  <2>7. NothingSkipped'
    <3> SUFFICES ASSUME NEW m \in Layer, NEW c \in 1..size'[m],
                        start[m] < c, c <= offset[m]
                 PROVE  copies'[m][c] > 0
      BY DEF NothingSkipped
    <3>1. c \in 1..size[m]
      BY <2>2, <2>5, Numbers
    <3> QED
      BY <3>1, <2>4 DEF NothingSkipped
  <2> QED
    BY <2>3, <2>6, <2>7
<1>2. CASE UNCHANGED <<size, copies>>
  BY <1>2 DEF WatchInv, CopyInv, NothingSkipped
<1> QED
  BY <1>1, <1>2

LEMMA StepCopies ==
  ASSUME TypeOK, PermitInv, [Next]_vars, WatchInv, CopyInv, NothingSkipped
  PROVE  WatchInv' /\ CopyInv' /\ NothingSkipped'
<1> USE DEF files, scan, watch, tasks
<1>1. ASSUME Converse \/ Receive \/ UNCHANGED vars
      PROVE  WatchInv' /\ CopyInv' /\ NothingSkipped'
  <2>1. Bottom \in Layer
    BY DEF Layer
  <2> QED
    BY <1>1, <2>1, OnlyWrites DEF Converse, Receive, vars
<1>2. ASSUME NEW l \in Inner, NEW i \in DOMAIN waiting[l], Acquire(l, i)
      PROVE  WatchInv' /\ CopyInv' /\ NothingSkipped'
  <2>1. l \in Layer
    BY DEF Layer, Inner
  <2>2. Write(l) \/ UNCHANGED <<size, copies>>
    BY <1>2 DEF Acquire, StartTurn, add_user_message
  <2> QED
    BY <1>2, <2>1, <2>2, OnlyWrites DEF Acquire
<1>3. ASSUME NEW l \in Inner, NEW i \in DOMAIN turns[l],
             Respond(l, i) \/ Fail(l, i) \/ End(l, i)
      PROVE  WatchInv' /\ CopyInv' /\ NothingSkipped'
  <2>1. l \in Layer
    BY DEF Layer, Inner
  <2> QED
    BY <1>3, <2>1, OnlyWrites DEF Respond, Fail, End
<1>4. ASSUME NEW l \in Layer, FindFile(l) \/ SendFile(l)
      PROVE  WatchInv' /\ CopyInv' /\ NothingSkipped'
  <2>1. CASE FindFile(l)
    <3>1. \A m \in Layer : /\ scanner[m] = "done" <=> scanner'[m] = "done"
                           /\ scanner[m] = "done" => found'[m] = found[m]
      BY <2>1 DEF FindFile, TypeOK
    <3>2. WatchInv'
      BY <2>1 DEF FindFile, WatchInv, TypeOK
    <3>3. CopyInv' /\ NothingSkipped'
      BY <2>1, <3>1 DEF FindFile, CopyInv, NothingSkipped
    <3> QED
      BY <3>2, <3>3
  <2>2. CASE SendFile(l)
    <3> DEFINE change == [layer |-> l, from |-> 0, to |-> found[l]]
    <3>1. change \in Change /\ change.layer = l /\ change.from = 0
          /\ change.to = found[l]
      BY DEF Change, TypeOK
    <3>2. Counts(change)
      BY <2>2, <3>1, SendCounts DEF SendFile
    <3> HIDE DEF change
    <3>3. \A m \in Layer : \A c \in 1..size[m] :
            copies'[m][c] = IF m = l /\ c <= found[m] THEN copies[m][c] + 1
                                                     ELSE copies[m][c]
      BY <3>1, <3>2 DEF Counts
    <3>4. scanner[l] # "done" /\ scanner'[l] = "done"
          /\ \A m \in Layer : m # l => scanner'[m] = scanner[m]
      BY <2>2 DEF SendFile, TypeOK
    <3>5. UNCHANGED <<size, found, watch>>
      BY <2>2 DEF SendFile
    <3>6. \A m \in Layer : \A c \in 1..size[m] : copies[m][c] \in Nat
      BY DEF TypeOK
    <3>7. WatchInv'
      BY <3>5 DEF WatchInv
    <3>8. CopyInv'
      BY <3>3, <3>4, <3>5, <3>6 DEF CopyInv
    <3>9. NothingSkipped'
      BY <3>3, <3>5, <3>6 DEF NothingSkipped
    <3> QED
      BY <3>7, <3>8, <3>9
  <2> QED
    BY <1>4, <2>1, <2>2
<1>5. ASSUME NEW l \in Layer, scan_for_new_files(l) \/ Poll(l)
      PROVE  WatchInv' /\ CopyInv' /\ NothingSkipped'
  <2>1. CASE scan_for_new_files(l)
    <3>1. PICK from \in {0, size[l]} :
            /\ offset' = [offset EXCEPT ![l] = from]
            /\ start' = [start EXCEPT ![l] = from]
      BY <2>1 DEF scan_for_new_files
    <3>2. l \notin watched /\ watched' = watched \cup {l} /\ sending' = <<>>
          /\ UNCHANGED <<size, copies, scan>>
      BY <2>1 DEF scan_for_new_files
    <3>3. offset[l] = 0
      BY <3>2 DEF WatchInv
    <3>4. WatchInv'
      BY <3>1, <3>2 DEF WatchInv, TypeOK
    <3>5. CopyInv'
      <4>1. \A m \in Layer : offset[m] <= offset'[m]
        BY <3>1, <3>3, Numbers DEF TypeOK
      <4>2. \A m \in Layer : offset'[m] \in Nat
        BY <3>1, Numbers DEF TypeOK
      <4> SUFFICES ASSUME NEW m \in Layer, NEW c \in 1..size[m]
                   PROVE  copies[m][c] <=
                            (IF scanner[m] = "done" /\ c <= found[m]
                               THEN 1 ELSE 0)
                            + (IF c <= offset'[m] THEN 1 ELSE 0)
        BY <3>2 DEF CopyInv
      <4>3. copies[m][c] <=
              (IF scanner[m] = "done" /\ c <= found[m] THEN 1 ELSE 0)
              + (IF c <= offset[m] THEN 1 ELSE 0)
        BY DEF CopyInv
      <4> QED
        BY <4>1, <4>2, <4>3, Numbers
    <3>6. NothingSkipped'
      BY <3>1, <3>2 DEF NothingSkipped, TypeOK
    <3> QED
      BY <3>4, <3>5, <3>6
  <2>2. CASE Poll(l)
    <3>1. WatchInv'
      BY <2>2 DEF Poll, Grown, WatchInv, TypeOK
    <3>2. CopyInv' /\ NothingSkipped'
      BY <2>2 DEF Poll, CopyInv, NothingSkipped
    <3> QED
      BY <3>1, <3>2
  <2> QED
    BY <1>5, <2>1, <2>2
<1>6. ASSUME SendChange
      PROVE  WatchInv' /\ CopyInv' /\ NothingSkipped'
  <2> DEFINE change == sending[1]
             l == change.layer
  <2>1. change \in Change /\ l \in Layer
    <3>1. sending \in Seq(Change) /\ sending # <<>>
      BY <1>6 DEF SendChange, TypeOK
    <3>2. sending[1] \in Change
      BY <3>1
    <3> QED
      BY <3>2 DEF Change
  <2>2. l \in watched /\ change.from = offset[l] /\ change.from < change.to
        /\ change.to <= size[l] /\ change.to \in Nat
    BY <1>6, <2>1 DEF SendChange, WatchInv, Change
  <2>3. Counts(change)
    BY <1>6, <2>1, SendCounts DEF SendChange
  <2>4. offset' = [offset EXCEPT ![l] = change.to] /\ sending' = <<>>
        /\ UNCHANGED <<size, scan, watched, start>>
    BY <1>6 DEF SendChange, Advanced
  <2> HIDE DEF change
  <2>5. \A m \in Layer : \A c \in 1..size[m] :
          copies'[m][c] = IF m = l /\ offset[l] < c /\ c <= change.to
                            THEN copies[m][c] + 1 ELSE copies[m][c]
    BY <2>2, <2>3 DEF Counts
  <2> HIDE DEF l
  <2>6. \A m \in Layer : \A c \in 1..size[m] : copies[m][c] \in Nat
    BY DEF TypeOK
  <2>7. \A m \in Layer : offset'[m] = IF m = l THEN change.to ELSE offset[m]
    BY <2>4 DEF TypeOK
  <2>8. WatchInv'
    BY <2>1, <2>2, <2>4, <2>7 DEF WatchInv
  <2>9. CopyInv'
    <3> SUFFICES ASSUME NEW m \in Layer, NEW c \in 1..size[m]
                 PROVE  copies'[m][c] <=
                          (IF scanner[m] = "done" /\ c <= found[m]
                             THEN 1 ELSE 0)
                          + (IF c <= offset'[m] THEN 1 ELSE 0)
      BY <2>4 DEF CopyInv
    <3>1. copies[m][c] <=
            (IF scanner[m] = "done" /\ c <= found[m] THEN 1 ELSE 0)
            + (IF c <= offset[m] THEN 1 ELSE 0)
      BY DEF CopyInv
    <3> QED
      BY <2>2, <2>5, <2>6, <2>7, <3>1, Numbers
  <2>10. NothingSkipped'
    <3> SUFFICES ASSUME NEW m \in Layer, NEW c \in 1..size[m],
                        start[m] < c, c <= offset'[m]
                 PROVE  copies'[m][c] > 0
      BY <2>4 DEF NothingSkipped
    <3>1. c <= offset[m] => copies[m][c] > 0
      BY DEF NothingSkipped
    <3> QED
      BY <2>2, <2>5, <2>6, <2>7, <3>1, Numbers
  <2> QED
    BY <2>8, <2>9, <2>10
<1> QED
  BY <1>1, <1>2, <1>3, <1>4, <1>5, <1>6, NextCases

-----------------------------------------------------------------------------
(* Every variable has its type in every behaviour.                           *)
THEOREM TypeCorrect == Spec => []TypeOK
<1>1. Init => TypeOK /\ PermitInv
  BY InitInv
<1>2. TypeOK /\ PermitInv /\ [Next]_vars => TypeOK' /\ PermitInv'
  BY StepType
<1> QED
  BY <1>1, <1>2, PTL DEF Spec

(* No two turns of one layer ever mix in its conversation.                   *)
THEOREM OneTurnPerLayer == Spec => []OneTurn
<1>1. Init => TypeOK /\ PermitInv
  BY InitInv
<1>2. TypeOK /\ PermitInv /\ [Next]_vars => TypeOK' /\ PermitInv'
  BY StepType
<1>3. TypeOK /\ PermitInv => OneTurn
  <2> SUFFICES ASSUME TypeOK, PermitInv, NEW l \in Inner
               PROVE  Len(turns[l]) <= 1
    BY DEF OneTurn
  <2>1. permit[l] \in {0, 1} /\ turns[l] \in Seq({"calling", "ending"})
    BY DEF TypeOK
  <2>2. permit[l] + Len(turns[l]) = 1 /\ Len(turns[l]) \in Nat
    BY <2>1 DEF PermitInv
  <2> QED
    BY <2>1, <2>2
<1> QED
  BY <1>1, <1>2, <1>3, PTL DEF Spec

SentInv == TypeOK /\ PermitInv /\ WatchInv /\ CopyInv /\ NothingSkipped

LEMMA SentInvHolds == Spec => []SentInv
<1>1. Init => SentInv
  <2>1. Init => NothingSkipped
    BY DEF Init, NothingSkipped
  <2> QED
    BY <2>1, InitInv DEF SentInv
<1>2. SentInv /\ [Next]_vars => SentInv'
  BY StepType, StepCopies DEF SentInv
<1> QED
  BY <1>1, <1>2, PTL DEF Spec

(* The watcher sends everything it advances past, however a file grows while *)
(* the channel is full.                                                      *)
THEOREM WatcherSkipsNothing == Spec => []NothingSkipped
<1>1. SentInv => NothingSkipped
  BY DEF SentInv
<1> QED
  BY <1>1, SentInvHolds, PTL

(* Nothing is sent twice but what a start-up scanner found, and that twice.  *)
THEOREM OnlyNewIsSent == Spec => []OnlyNew
<1>1. SentInv => OnlyNew
  <2> SUFFICES ASSUME SentInv, NEW l \in Layer, NEW c \in 1..size[l]
               PROVE  copies[l][c] <=
                        IF scanner[l] = "done" /\ c <= found[l] THEN 2 ELSE 1
    BY DEF OnlyNew
  <2>1. copies[l][c] <=
          (IF scanner[l] = "done" /\ c <= found[l] THEN 1 ELSE 0)
          + (IF c <= offset[l] THEN 1 ELSE 0)
    BY DEF SentInv, CopyInv
  <2>2. copies[l][c] \in Nat
    BY Numbers DEF SentInv
  <2> QED
    BY <2>1, <2>2
<1> QED
  BY <1>1, SentInvHolds, PTL

(* What a layer writes goes up whole and, but for the scanners, once.        *)
THEOREM SentWhole == Spec => []SentWholeAndOnce
BY WatcherSkipsNothing, OnlyNewIsSent, PTL DEF SentWholeAndOnce
=============================================================================
