-------------------------- MODULE WebStaging_proofs --------------------------
(***************************************************************************)
(* For any browsers, entries, stagings of other clients and faults, and    *)
(* any number of pushes under way: no sync and no push takes an entry from *)
(* a browser unless two writes of the same store overlapped.               *)
(*                                                                         *)
(* A reconciliation drops entries that are marked as committed, and the    *)
(* mark may come from the blob of another client.  So the invariant is     *)
(* about every staging there is, in a store, in an edit or a sync that is  *)
(* about to write, in a push under way or on the remote: what it marks is  *)
(* in a ledger (Marks).  What a browser had is then in the staging that it *)
(* will hold once its running writes are done (Held).                      *)
(***************************************************************************)
EXTENDS WebStaging, SequenceTheorems, FiniteSetTheorems, TLAPS

\* Stagings that mark nothing as committed but entries of L.
Marking(L) == {s \in Staging : \A e \in Entry : s[e] = "committed" => e \in L}

PushOf(L) == [of : Marking(L), for : {"edit", "gate", "claim", "commit"},
              at : {"blob", "cookie"}, late : BOOLEAN]

Types ==
  /\ pc \in [Device -> Steps]
  /\ had \in [Device -> SUBSET Entry]
  /\ raced \in [Device -> BOOLEAN]

Marks ==
  /\ local \in [Device -> Marking(ledger)]
  /\ edit \in [Device -> Marking(ledger) \cup {None}]
  /\ work \in [Device -> Marking(ledger) \cup {None}]
  /\ \A d \in Device : pc[d] \in {"merge", "write"} => work[d] # None
  /\ pushes \in [Device -> Seq(PushOf(ledger))]
  /\ blob # None => blob.of \in Marking(ledger)

\* A browser waits for each push of its sync, and so has one at most.
Sends ==
  \A d \in Device : \A i \in DOMAIN pushes[d] :
    pushes[d][i].for # "edit" =>
      /\ pc[d] = "send"
      /\ \A j \in DOMAIN pushes[d] : pushes[d][j].for # "edit" => j = i

\* The staging a browser will hold once its edit or its sync has written.
WillHold(d) ==
  IF edit[d] # None THEN edit[d]
  ELSE IF pc[d] = "write" THEN work[d] ELSE local[d]

\* An edit that runs beside the write of a sync ends in an overlap.
Held ==
  \A d \in Device :
    ~raced[d] /\ ~(edit[d] # None /\ pc[d] = "write")
      => had[d] \subseteq Staged(WillHold(d)) \cup ledger

IInv == Types /\ Marks /\ Sends /\ Held

-----------------------------------------------------------------------------
\* A staging that marks only entries of a ledger still does when it grows.
LEMMA MarkingGrows ==
  ASSUME NEW L, NEW M, L \subseteq M
  PROVE  Marking(L) \subseteq Marking(M)
BY DEF Marking

LEMMA PushesGrow ==
  ASSUME NEW L, NEW M, L \subseteq M
  PROVE  Seq(PushOf(L)) \subseteq Seq(PushOf(M))
<1>1. PushOf(L) \subseteq PushOf(M)
  BY MarkingGrows DEF PushOf
<1> QED BY <1>1

\* RemoveAt keeps the other pushes.
LEMMA RemoveAtType ==
  ASSUME NEW X, NEW s \in Seq(X), NEW i \in DOMAIN s
  PROVE  RemoveAt(s, i) \in Seq(X)
<1>1. i \in 1..Len(s)
  OBVIOUS
<1>2. SubSeq(s, 1, i - 1) \in Seq(X) /\ SubSeq(s, i + 1, Len(s)) \in Seq(X)
  BY <1>1
<1> QED BY <1>2 DEF RemoveAt

LEMMA RemoveAtElements ==
  ASSUME NEW X, NEW s \in Seq(X), NEW i \in DOMAIN s
  PROVE  /\ DOMAIN RemoveAt(s, i) = 1..(Len(s) - 1)
         /\ \A j \in DOMAIN RemoveAt(s, i) :
              RemoveAt(s, i)[j] = IF j < i THEN s[j] ELSE s[j + 1]
<1> DEFINE a == SubSeq(s, 1, i - 1)
           b == SubSeq(s, i + 1, Len(s))
           m == i - 1
           n == Len(s) - 1
<1>1. i \in 1..Len(s) /\ Len(s) \in Nat
  OBVIOUS
<1>2. /\ a \in Seq(X) /\ Len(a) = i - 1
      /\ \A j \in 1..(i - 1) : a[j] = s[j]
  BY <1>1
<1>3. /\ b \in Seq(X) /\ Len(b) = Len(s) - i
      /\ \A j \in 1..(Len(s) - i) : b[j] = s[i + j]
  BY <1>1
<1>4. RemoveAt(s, i) = a \o b
  BY DEF RemoveAt
<1> HIDE DEF a, b
<1>5. /\ m \in Nat /\ n \in Nat /\ Len(a) = m /\ Len(b) = n - m
      /\ a \in Seq(X) /\ b \in Seq(X)
  BY <1>1, <1>2, <1>3
<1> HIDE DEF m, n
<1>6. /\ DOMAIN (a \o b) = 1..n
      /\ \A j \in 1..n : (a \o b)[j] = IF j < m + 1 THEN a[j] ELSE b[j - m]
  <2>1. a \o b \in Seq(X) /\ Len(a \o b) = n
    BY <1>5
  <2>2. DOMAIN (a \o b) = 1..n
    BY <2>1
  <2>3. \A j \in 1..n : (a \o b)[j] = IF j < m + 1 THEN a[j] ELSE b[j - m]
    <3>1. /\ Len(a) + Len(b) = n
          /\ \A j \in 1..n : (j <= Len(a)) = (j < m + 1)
      BY <1>5
    <3>2. \A j \in 1..(Len(a) + Len(b)) :
            (a \o b)[j] = IF j <= Len(a) THEN a[j] ELSE b[j - Len(a)]
      BY <1>5, ConcatProperties
    <3> QED BY <1>5, <3>1, <3>2
  <2> QED BY <2>2, <2>3
<1> USE DEF m, n
<1>7. ASSUME NEW j \in 1..(Len(s) - 1)
      PROVE  (a \o b)[j] = IF j < i THEN s[j] ELSE s[j + 1]
  <2>1. CASE j < i
    <3>1. j \in 1..(i - 1) /\ j < (i - 1) + 1
      BY <1>1, <2>1
    <3> QED BY <1>2, <1>6, <2>1, <3>1
  <2>2. CASE ~(j < i)
    <3>1. /\ j - (i - 1) \in 1..(Len(s) - i) /\ i + (j - (i - 1)) = j + 1
          /\ ~(j < (i - 1) + 1)
      BY <1>1, <2>2
    <3> QED BY <1>3, <1>6, <2>2, <3>1
  <2> QED BY <2>1, <2>2
<1> QED BY <1>4, <1>6, <1>7

\* Overtaking changes only whether pushes are late.
LEMMA OvertakenType ==
  ASSUME NEW L, NEW s \in Seq(PushOf(L)), NEW i \in DOMAIN s
  PROVE  /\ Overtaken(s, i) \in Seq(PushOf(L))
         /\ DOMAIN Overtaken(s, i) = DOMAIN s
         /\ \A j \in DOMAIN s : Overtaken(s, i)[j].for = s[j].for
<1> DEFINE t == Overtaken(s, i)
<1>1. DOMAIN s = 1..Len(s) /\ Len(s) \in Nat
  OBVIOUS
<1>2. \A j \in 1..Len(s) : s[j] \in PushOf(L)
  OBVIOUS
<1>3. \A j \in 1..Len(s) : [s[j] EXCEPT !.late = TRUE] \in PushOf(L)
  BY <1>2 DEF PushOf
<1>4. t = [j \in 1..Len(s) |-> IF j < i THEN [s[j] EXCEPT !.late = TRUE] ELSE s[j]]
  BY <1>1 DEF Overtaken
<1>5. \A j \in 1..Len(s) : t[j] \in PushOf(L)
  BY <1>2, <1>3, <1>4
<1>6. \A j \in 1..Len(s) : t[j].for = s[j].for
  BY <1>2, <1>4 DEF PushOf
<1> QED BY <1>1, <1>4, <1>5, <1>6

\* A new push of what marks only entries of a ledger.
LEMMA SendingType ==
  ASSUME NEW d \in Device, NEW s \in Marking(ledger),
         NEW caller \in {"edit", "gate", "claim", "commit"},
         pushes \in [Device -> Seq(PushOf(ledger))], Sending(d, s, caller)
  PROVE  pushes' \in [Device -> Seq(PushOf(ledger))]
<1>1. [of |-> s, for |-> caller, at |-> "blob", late |-> FALSE] \in PushOf(ledger)
  BY DEF PushOf
<1>2. Append(pushes[d], [of |-> s, for |-> caller, at |-> "blob", late |-> FALSE])
        \in Seq(PushOf(ledger))
  BY <1>1
<1> QED BY <1>2 DEF Sending

\* A push that is under way marks only entries of the ledger.
LEMMA PushType ==
  ASSUME pushes \in [Device -> Seq(PushOf(ledger))],
         NEW d \in Device, NEW i \in DOMAIN pushes[d]
  PROVE  pushes[d][i] \in PushOf(ledger) /\ pushes[d][i].of \in Marking(ledger)
<1>1. pushes[d] \in Seq(PushOf(ledger))
  OBVIOUS
<1>2. pushes[d][i] \in PushOf(ledger)
  BY <1>1
<1> QED BY <1>2 DEF PushOf

\* The sync of d goes on, if it does, to something other than a merge.
Moves(d) ==
  pc' = pc \/ \E step \in Steps \ {"merge", "write"} : pc' = [pc EXCEPT ![d] = step]

\* A step that sends nothing, and leaves no sync that waits.
LEMMA NothingSent ==
  ASSUME Sends, pushes' = pushes,
         \A x \in Device : pc[x] = "send" => pc'[x] = "send"
  PROVE  Sends'
BY DEF Sends

LEMMA EditSent ==
  ASSUME Sends, Types, NEW d \in Device, NEW s, pc' = pc,
         pushes \in [Device -> Seq(PushOf(ledger))], s \in Marking(ledger),
         Sending(d, s, "edit")
  PROVE  Sends'
<1> DEFINE p == [of |-> s, for |-> "edit", at |-> "blob", late |-> FALSE]
<1>1. pushes' = [pushes EXCEPT ![d] = Append(pushes[d], p)]
  BY DEF Sending
<1>2. pushes[d] \in Seq(PushOf(ledger)) /\ p \in PushOf(ledger)
  BY DEF PushOf
<1>3. /\ DOMAIN Append(pushes[d], p) = 1..(Len(pushes[d]) + 1)
      /\ DOMAIN pushes[d] = 1..Len(pushes[d]) /\ Len(pushes[d]) \in Nat
      /\ \A i \in 1..Len(pushes[d]) : Append(pushes[d], p)[i] = pushes[d][i]
      /\ Append(pushes[d], p)[Len(pushes[d]) + 1] = p
  BY <1>2
<1>4. \A i \in DOMAIN Append(pushes[d], p) :
        Append(pushes[d], p)[i].for # "edit"
          => i \in DOMAIN pushes[d] /\ Append(pushes[d], p)[i] = pushes[d][i]
  BY <1>3
<1>5. pushes'[d] = Append(pushes[d], p)
      /\ \A x \in Device \ {d} : pushes'[x] = pushes[x]
  BY <1>1
<1>6. \A i \in DOMAIN pushes'[d] :
        pushes'[d][i].for # "edit"
          => i \in DOMAIN pushes[d] /\ pushes'[d][i].for = pushes[d][i].for
  BY <1>4, <1>5
<1> QED BY <1>5, <1>6, ZenonT(30) DEF Sends

LEMMA SyncSent ==
  ASSUME Sends, Types, NEW d \in Device, NEW s, NEW caller,
         pc[d] # "send", pc' = [pc EXCEPT ![d] = "send"],
         pushes \in [Device -> Seq(PushOf(ledger))], s \in Marking(ledger),
         caller \in {"gate", "claim", "commit"}, Sending(d, s, caller)
  PROVE  Sends'
<1> DEFINE p == [of |-> s, for |-> caller, at |-> "blob", late |-> FALSE]
<1>1. pushes' = [pushes EXCEPT ![d] = Append(pushes[d], p)]
  BY DEF Sending
<1>2. pushes[d] \in Seq(PushOf(ledger)) /\ p \in PushOf(ledger)
  BY DEF PushOf
<1>3. /\ DOMAIN Append(pushes[d], p) = 1..(Len(pushes[d]) + 1)
      /\ DOMAIN pushes[d] = 1..Len(pushes[d]) /\ Len(pushes[d]) \in Nat
      /\ \A i \in 1..Len(pushes[d]) : Append(pushes[d], p)[i] = pushes[d][i]
  BY <1>2
<1>4. \A i \in DOMAIN pushes[d] : pushes[d][i].for = "edit"
  BY DEF Sends
<1>5. \A i \in DOMAIN Append(pushes[d], p) :
        Append(pushes[d], p)[i].for # "edit" => i = Len(pushes[d]) + 1
  BY <1>3, <1>4
<1>6. pushes'[d] = Append(pushes[d], p) /\ pc'[d] = "send"
      /\ \A x \in Device \ {d} : pushes'[x] = pushes[x] /\ pc'[x] = pc[x]
  BY <1>1 DEF Types
<1> QED BY <1>5, <1>6 DEF Sends

\* A push is done with, and other pushes may have become late; if it was one of
\* a sync, that goes on.
LEMMA PushRemoved ==
  ASSUME Sends, Types, NEW d \in Device, NEW i \in DOMAIN pushes[d],
         pushes \in [Device -> Seq(PushOf(ledger))],
         NEW s \in Seq(PushOf(ledger)), DOMAIN s = DOMAIN pushes[d],
         \A j \in DOMAIN s : s[j].for = pushes[d][j].for,
         pushes' = [pushes EXCEPT ![d] = RemoveAt(s, i)],
         Moves(d), pc' = pc \/ pushes[d][i].for # "edit"
  PROVE  Sends'
<1> DEFINE r == RemoveAt(s, i)
           at(j) == IF j < i THEN j ELSE j + 1
<1>1. /\ DOMAIN s = 1..Len(s) /\ Len(s) \in Nat /\ i \in 1..Len(s)
      /\ DOMAIN r = 1..(Len(s) - 1)
      /\ \A j \in DOMAIN r : r[j] = IF j < i THEN s[j] ELSE s[j + 1]
  BY RemoveAtElements
<1>2. \A j \in DOMAIN r : /\ at(j) \in DOMAIN s /\ at(j) # i /\ r[j] = s[at(j)]
  BY <1>1
<1>3. \A j, k \in DOMAIN r : at(j) = at(k) => j = k
  BY <1>1
<1>4. \A j \in DOMAIN r : r[j].for = pushes[d][at(j)].for /\ at(j) \in DOMAIN pushes[d]
  BY <1>2
<1>5. /\ pushes'[d] = r
      /\ \A x \in Device \ {d} : pushes'[x] = pushes[x] /\ pc'[x] = pc[x]
  BY DEF Types, Moves
<1> HIDE DEF r, at
<1>6. \A j \in DOMAIN r : r[j].for # "edit" =>
        /\ pc'[d] = "send"
        /\ \A k \in DOMAIN r : r[k].for # "edit" => k = j
  <2> SUFFICES ASSUME NEW j \in DOMAIN r, r[j].for # "edit"
               PROVE  /\ pc'[d] = "send"
                      /\ \A k \in DOMAIN r : r[k].for # "edit" => k = j
    OBVIOUS
  <2>1. at(j) \in DOMAIN pushes[d] /\ pushes[d][at(j)].for # "edit"
    BY <1>4
  <2>2. pc[d] = "send" /\ pushes[d][i].for = "edit"
    BY <1>2, <2>1 DEF Sends
  <2>3. \A k \in DOMAIN r : r[k].for # "edit" => at(k) = at(j)
    BY <1>4, <2>1 DEF Sends
  <2> QED BY <1>3, <2>2, <2>3
<1> QED BY <1>5, <1>6 DEF Sends

\* What merging keeps: an entry of either side is staged or was committed.
LEMMA MergeKeeps ==
  ASSUME NEW mine \in Marking(ledger), NEW theirs \in Marking(ledger)
  PROVE  /\ Uncommitted(Merge(mine, theirs)) \in Marking(ledger)
         /\ Staged(mine) \cup Staged(theirs)
              \subseteq Staged(Uncommitted(Merge(mine, theirs))) \cup ledger
<1> DEFINE new == Uncommitted(Merge(mine, theirs))
<1>1. /\ mine \in [Entry -> Stage] /\ theirs \in [Entry -> Stage]
      /\ \A e \in Entry : mine[e] = "committed" \/ theirs[e] = "committed"
                            => e \in ledger
  BY DEF Marking, Staging
<1>2. /\ new \in [Entry -> Stage]
      /\ \A e \in Entry : new[e] # "committed"
  BY <1>1 DEF Uncommitted, Merge, Stage
<1>3. \A e \in Entry : (mine[e] # "absent" \/ theirs[e] # "absent")
                         => new[e] # "absent" \/ e \in ledger
  BY <1>1 DEF Uncommitted, Merge
<1> QED BY <1>2, <1>3 DEF Marking, Staging, Staged

-----------------------------------------------------------------------------
LEMMA Initially ==
  Init => IInv
<1> SUFFICES ASSUME Init PROVE IInv
  OBVIOUS
<1>1. Empty \in Marking(ledger)
  BY DEF Empty, Marking, Staging, Stage
<1>2. Types
  BY DEF Init, Types, Steps
<1>3. Marks
  BY <1>1 DEF Init, Marks
<1>4. Sends
  BY DEF Init, Sends
<1>5. Held
  BY DEF Init, Held
<1> QED BY <1>2, <1>3, <1>4, <1>5 DEF IInv

\* A step of browser d that leaves the ledger alone and keeps the types keeps
\* what the others hold; it is left to see what d holds.
LEMMA OthersHold ==
  ASSUME IInv, NEW d \in Device, ledger' = ledger,
         \A x \in Device \ {d} :
           /\ local'[x] = local[x] /\ edit'[x] = edit[x] /\ work'[x] = work[x]
           /\ pc'[x] = pc[x] /\ had'[x] = had[x] /\ raced'[x] = raced[x],
         ~raced'[d] /\ ~(edit'[d] # None /\ pc'[d] = "write")
           => had'[d] \subseteq Staged(WillHold(d)') \cup ledger
  PROVE  Held'
BY DEF IInv, Held, WillHold

LEMMA BeginEditKeeps ==
  ASSUME IInv, NEW d \in Device, NEW e \in Entry, NEW s \in Stage,
         BeginEdit(d, e, s)
  PROVE  IInv'
<1> USE DEF IInv
<1>1. ledger' = ledger /\ local' = local /\ work' = work /\ pc' = pc
      /\ raced' = raced /\ pushes' = pushes /\ blob' = blob
  BY DEF BeginEdit, syncing, remote
<1>2. Types'
  BY <1>1 DEF Types, BeginEdit
<1>3. local[d] \in Marking(ledger) /\ s # "committed"
  BY DEF BeginEdit, Marks
<1>4. /\ [local[d] EXCEPT ![e] = s] \in Marking(ledger)
      /\ [local[d] EXCEPT ![e] = s] # None
  BY <1>3, NoneIsNoStaging DEF Marking, Staging
<1>5. Marks'
  BY <1>1, <1>4 DEF Marks, BeginEdit
<1>6. edit'[d] = [local[d] EXCEPT ![e] = s] /\ edit'[d] # None
  BY <1>4 DEF BeginEdit, Marks
<1>7. ASSUME ~raced'[d], ~(edit'[d] # None /\ pc'[d] = "write")
      PROVE  had'[d] \subseteq Staged(WillHold(d)') \cup ledger
  <2>1. had[d] \subseteq Staged(local[d]) \cup ledger
    BY <1>1, <1>6, <1>7 DEF Held, WillHold, BeginEdit
  <2>2. had'[d] = IF s = "absent" THEN had[d] \ {e} ELSE had[d] \cup {e}
    BY DEF BeginEdit, Types
  <2>3. WillHold(d)' = [local[d] EXCEPT ![e] = s]
    BY <1>6 DEF WillHold
  <2>4. local[d] \in [Entry -> Stage]
    BY <1>3 DEF Marking, Staging
  <2> QED BY <2>1, <2>2, <2>3, <2>4 DEF Staged
<1>8. Held'
  BY <1>1, <1>7, OthersHold DEF BeginEdit, Types, Marks
<1>9. Sends'
  BY <1>1, NothingSent
<1> QED BY <1>2, <1>5, <1>8, <1>9

LEMMA EndEditKeeps ==
  ASSUME IInv, NEW d \in Device, EndEdit(d)
  PROVE  IInv'
<1> USE DEF IInv
<1>1. /\ ledger' = ledger /\ work' = work /\ pc' = pc /\ had' = had
      /\ pushes' = pushes /\ blob' = blob
      /\ local' = [local EXCEPT ![d] = edit[d]]
      /\ edit' = [edit EXCEPT ![d] = None] /\ edit[d] # None
      /\ raced' = [raced EXCEPT ![d] = @ \/ pc[d] = "write"]
  BY DEF EndEdit, Overlaps, syncing, remote
<1>2. Types'
  BY <1>1 DEF Types
<1>3. edit[d] \in Marking(ledger)
  BY <1>1 DEF Marks
<1>4. Marks'
  BY <1>1, <1>3 DEF Marks
<1>5. ASSUME ~raced'[d]
      PROVE  had'[d] \subseteq Staged(WillHold(d)') \cup ledger
  <2>1. ~raced[d] /\ pc[d] # "write"
    BY <1>1, <1>5 DEF Types
  <2>2. had[d] \subseteq Staged(edit[d]) \cup ledger
    BY <1>1, <2>1 DEF Held, WillHold
  <2>3. WillHold(d)' = edit[d]
    BY <1>1, <2>1 DEF WillHold, Marks, Types
  <2> QED BY <1>1, <2>2, <2>3
<1>6. Held'
  BY <1>1, <1>5, OthersHold DEF Types, Marks
<1>7. Sends'
  BY <1>1, NothingSent
<1> QED BY <1>2, <1>4, <1>6, <1>7

\* Steps after which staging, edit, merge and ledger are as before, whatever
\* becomes of pushes, cookie, key and blob.
LEMMA QuietKeeps ==
  ASSUME IInv, NEW d \in Device,
         UNCHANGED <<local, edit, work, ledger, had, raced>>,
         Moves(d), pc' = pc \/ pc[d] # "write",
         pushes' \in [Device -> Seq(PushOf(ledger))],
         blob' # None => blob'.of \in Marking(ledger), Sends'
  PROVE  IInv'
<1> USE DEF IInv
<1>1. Types'
  BY DEF Types, Moves
<1>2. Marks'
  BY DEF Marks, Types, Moves
<1>3. ASSUME ~raced'[d], ~(edit'[d] # None /\ pc'[d] = "write")
      PROVE  had'[d] \subseteq Staged(WillHold(d)') \cup ledger
  BY <1>3 DEF Held, WillHold, Types, Moves
<1>4. Held'
  BY <1>3, OthersHold DEF Types, Moves
<1> QED BY <1>1, <1>2, <1>4

\* The timer fires.
LEMMA FireKeeps ==
  ASSUME IInv, NEW d \in Device, Fire(d)
  PROVE  IInv'
<1>1. /\ UNCHANGED <<local, edit, work, ledger, had, raced, pc, blob>>
      /\ Sending(d, local[d], "edit")
  BY DEF Fire, syncing, remote, history
<1>2. local[d] \in Marking(ledger) /\ pushes \in [Device -> Seq(PushOf(ledger))]
  BY DEF IInv, Marks
<1>3. pushes' \in [Device -> Seq(PushOf(ledger))]
  BY <1>1, <1>2, SendingType
<1>4. Sends'
  BY <1>1, <1>2, EditSent DEF IInv
<1>5. Moves(d) /\ (blob' # None => blob'.of \in Marking(ledger))
  BY <1>1 DEF IInv, Marks, Moves
<1> QED BY <1>1, <1>3, <1>4, <1>5, QuietKeeps

\* A push is done with, at the store or by an error.
LEMMA RemovalKeeps ==
  ASSUME IInv, NEW d \in Device, NEW i \in DOMAIN pushes[d],
         NEW step \in Steps \ {"merge", "write"},
         UNCHANGED <<local, edit, work, ledger, had, raced>>,
         \/ pushes' = [pushes EXCEPT ![d] = RemoveAt(Overtaken(@, i), i)]
         \/ pushes' = [pushes EXCEPT ![d] = RemoveAt(@, i)],
         pc' = [pc EXCEPT ![d] = IF pushes[d][i].for = "edit" THEN @ ELSE step],
         blob' = blob \/ blob' = [of |-> pushes[d][i].of, by |-> d]
  PROVE  IInv'
<1>1. pushes \in [Device -> Seq(PushOf(ledger))] /\ pc \in [Device -> Steps]
      /\ Sends /\ Types /\ (blob # None => blob.of \in Marking(ledger))
  BY DEF IInv, Marks, Types
<1>2. pushes[d] \in Seq(PushOf(ledger))
  BY <1>1
<1>3. PICK s \in Seq(PushOf(ledger)) :
        /\ DOMAIN s = DOMAIN pushes[d]
        /\ \A j \in DOMAIN s : s[j].for = pushes[d][j].for
        /\ pushes' = [pushes EXCEPT ![d] = RemoveAt(s, i)]
  <2>1. CASE pushes' = [pushes EXCEPT ![d] = RemoveAt(Overtaken(@, i), i)]
    BY <1>2, <2>1, OvertakenType
  <2>2. CASE pushes' = [pushes EXCEPT ![d] = RemoveAt(@, i)]
    BY <1>2, <2>2
  <2> QED BY <2>1, <2>2
<1>4. RemoveAt(s, i) \in Seq(PushOf(ledger))
  BY <1>3, RemoveAtType
<1>5. pushes' \in [Device -> Seq(PushOf(ledger))]
  BY <1>1, <1>3, <1>4
<1>6. Moves(d) /\ (pc' = pc \/ pushes[d][i].for # "edit")
  BY <1>1 DEF Moves
<1>7. Sends'
  BY <1>1, <1>3, <1>6, PushRemoved
<1>8. pushes[d][i].for # "edit" => pc[d] # "write"
  BY <1>1 DEF Sends
<1>9. blob' # None => blob'.of \in Marking(ledger)
  BY <1>1, PushType
<1> QED BY <1>5, <1>6, <1>7, <1>8, <1>9, QuietKeeps

LEMMA FailKeeps ==
  ASSUME IInv, NEW d \in Device, NEW i \in DOMAIN pushes[d], Fail(d, i)
  PROVE  IInv'
<1>1. UNCHANGED <<local, edit, work, ledger, had, raced>>
  BY DEF Fail
<1>2. pushes' = [pushes EXCEPT ![d] = RemoveAt(Overtaken(@, i), i)]
  BY DEF Fail
<1>3. pc' = [pc EXCEPT ![d] = IF pushes[d][i].for = "edit" THEN @ ELSE "idle"]
  BY DEF Fail
<1>4. blob' = blob \/ blob' = [of |-> pushes[d][i].of, by |-> d]
  BY DEF Fail
<1> QED BY <1>1, <1>2, <1>3, <1>4, RemovalKeeps DEF Steps

LEMMA ArriveCookieKeeps ==
  ASSUME IInv, NEW d \in Device, NEW i \in DOMAIN pushes[d], ArriveCookie(d, i)
  PROVE  IInv'
<1>1. /\ UNCHANGED <<local, edit, work, ledger, had, raced, pc, blob>>
      /\ pushes' = [pushes EXCEPT ![d] = RemoveAt(@, i)]
  BY DEF ArriveCookie, syncing
<1>2. CASE pushes[d][i].for = "edit"
  <2>1. pc' = [pc EXCEPT ![d] = IF pushes[d][i].for = "edit" THEN @ ELSE "send"]
    BY <1>1, <1>2 DEF IInv, Types
  <2> QED BY <1>1, <2>1, RemovalKeeps DEF Steps
<1>3. CASE pushes[d][i].for # "edit"
  <2>1. pc' = [pc EXCEPT ![d] = IF pushes[d][i].for = "edit" THEN @ ELSE "send"]
    BY <1>1, <1>3 DEF IInv, Types, Sends
  <2> QED BY <1>1, <2>1, RemovalKeeps DEF Steps
<1> QED BY <1>2, <1>3

\* The blob has arrived; the push of an edit goes on with its cookie.
LEMMA ArriveKeeps ==
  ASSUME IInv, NEW d \in Device, NEW i \in DOMAIN pushes[d], Arrive(d, i)
  PROVE  IInv'
<1> DEFINE p == pushes[d][i]
           rest == Overtaken(pushes[d], i)
<1>1. /\ UNCHANGED <<local, edit, work, ledger, had, raced>>
      /\ blob' = [of |-> p.of, by |-> d]
  BY DEF Arrive
<1>2. CASE p.for # "edit"
  <2>1. pushes' = [pushes EXCEPT ![d] = RemoveAt(Overtaken(@, i), i)]
    BY <1>2 DEF Arrive
  <2>2. PICK step \in {"claim", "idle"} : pc' = [pc EXCEPT ![d] = step]
    BY <1>2 DEF Arrive
  <2>3. pc' = [pc EXCEPT ![d] = IF p.for = "edit" THEN @ ELSE step]
    BY <1>2, <2>2
  <2> QED BY <1>1, <2>1, <2>3, RemovalKeeps DEF Steps
<1>3. CASE p.for = "edit"
  <2>1. /\ pushes' = [pushes EXCEPT ![d] = [rest EXCEPT ![i].at = "cookie"]]
        /\ pc' = pc
    BY <1>3 DEF Arrive, IInv, Types
  <2>2. pushes \in [Device -> Seq(PushOf(ledger))] /\ pushes[d] \in Seq(PushOf(ledger))
    BY DEF IInv, Marks
  <2>3. /\ rest \in Seq(PushOf(ledger)) /\ DOMAIN rest = DOMAIN pushes[d]
        /\ \A j \in DOMAIN pushes[d] : rest[j].for = pushes[d][j].for
    BY <2>2, OvertakenType
  <2> DEFINE new == [rest EXCEPT ![i].at = "cookie"]
  <2> HIDE DEF rest
  <2>4. rest[i] \in PushOf(ledger) /\ i \in DOMAIN rest
    BY <2>3
  <2>5. [rest[i] EXCEPT !.at = "cookie"] \in PushOf(ledger)
        /\ [rest[i] EXCEPT !.at = "cookie"].for = rest[i].for
    BY <2>4 DEF PushOf
  <2>6. /\ new = [rest EXCEPT ![i] = [rest[i] EXCEPT !.at = "cookie"]]
    OBVIOUS
  <2>7. /\ new \in Seq(PushOf(ledger)) /\ DOMAIN new = DOMAIN pushes[d]
        /\ \A j \in DOMAIN pushes[d] : new[j].for = pushes[d][j].for
    BY <2>3, <2>4, <2>5, <2>6
  <2> HIDE DEF new
  <2>8. pushes' \in [Device -> Seq(PushOf(ledger))]
    BY <2>1, <2>2, <2>7 DEF new
  <2>9. pushes'[d] = new /\ \A x \in Device \ {d} : pushes'[x] = pushes[x]
    BY <2>1, <2>2 DEF new
  <2>10. Sends'
    <3>1. ASSUME NEW x \in Device
          PROVE  /\ DOMAIN pushes'[x] = DOMAIN pushes[x]
                 /\ \A j \in DOMAIN pushes[x] : pushes'[x][j].for = pushes[x][j].for
      BY <2>7, <2>9
    <3> QED BY <2>1, <3>1 DEF IInv, Sends
  <2>11. p.of \in Marking(ledger) /\ Moves(d)
    BY <2>1, <2>2, PushType DEF Moves
  <2> QED BY <1>1, <2>1, <2>8, <2>10, <2>11, QuietKeeps
<1> QED BY <1>2, <1>3

-----------------------------------------------------------------------------
\* Steps of a sync that write no staging.
LEMMA GateKeeps ==
  ASSUME IInv, NEW d \in Device,
         \/ GateExpired(d) \/ GateUnclaimed(d) \/ Reauthenticate(d)
         \/ PullFails(d) \/ Claim(d) \/ Expire(d) \/ Monitor(d)
  PROVE  IInv'
<1>1. UNCHANGED <<local, edit, work, ledger, had, raced, pushes, blob>>
  BY DEF GateExpired, GateUnclaimed, Reauthenticate, PullFails, Claim, Expire,
         Monitor, browser, syncing, remote, history
<1>2. Moves(d) /\ (pc' = pc \/ pc[d] \in {"idle", "pull", "claim"})
  BY DEF GateExpired, GateUnclaimed, Reauthenticate, PullFails, Claim, Expire,
         Monitor, syncing, Goto, Moves, Steps
<1>3. Sends'
  BY <1>1, <1>2, NothingSent DEF IInv, Types, Moves
<1> QED BY <1>1, <1>2, <1>3, QuietKeeps DEF IInv, Marks

\* A sync sends a staging and waits for its push.
LEMMA SyncSendKeeps ==
  ASSUME IInv, NEW d \in Device, NEW s \in Marking(ledger),
         NEW caller \in {"gate", "claim", "commit"}, Sending(d, s, caller),
         UNCHANGED <<local, edit, work, ledger, had, raced, blob>>,
         pc[d] \in {"idle", "pull", "publish"}, Goto(d, "send")
  PROVE  IInv'
<1>1. Types /\ Sends /\ pushes \in [Device -> Seq(PushOf(ledger))]
  BY DEF IInv, Marks
<1>2. pushes' \in [Device -> Seq(PushOf(ledger))]
  BY <1>1, SendingType
<1>3. Sends'
  BY <1>1, SyncSent DEF Goto
<1>4. Moves(d) /\ pc[d] # "write"
  BY DEF Goto, Moves, Steps
<1> QED BY <1>2, <1>3, <1>4, QuietKeeps DEF IInv, Marks

LEMMA GateMatchesKeeps ==
  ASSUME IInv, NEW d \in Device, GateMatches(d)
  PROVE  IInv'
<1>1. UNCHANGED <<local, edit, work, ledger, had, raced, blob>>
  BY DEF GateMatches, remote, history
<1>2. local[d] \in Marking(ledger)
  BY DEF IInv, Marks
<1> QED BY <1>1, <1>2, SyncSendKeeps DEF GateMatches

LEMMA PublishKeeps ==
  ASSUME IInv, NEW d \in Device, Publish(d)
  PROVE  IInv'
<1>1. UNCHANGED <<local, edit, work, ledger, had, raced, blob>>
      /\ pc[d] = "publish"
  BY DEF Publish, remote
<1>2. local[d] \in Marking(ledger)
  BY DEF IInv, Marks
<1>3. CASE Sending(d, local[d], "commit") /\ Goto(d, "send")
  BY <1>1, <1>2, <1>3, SyncSendKeeps
<1>4. CASE Goto(d, "idle") /\ pushes' = pushes
  <2>1. Moves(d) /\ pc[d] # "write" /\ pc[d] # "send"
    BY <1>1, <1>4 DEF Goto, Moves, Steps
  <2>2. Sends'
    BY <1>4, <2>1, NothingSent DEF IInv, Types, Moves
  <2> QED BY <1>1, <1>4, <2>1, <2>2, QuietKeeps DEF IInv, Marks
<1> QED BY <1>3, <1>4 DEF Publish

LEMMA PullKeeps ==
  ASSUME IInv, NEW d \in Device, Pull(d)
  PROVE  IInv'
<1> USE DEF IInv
<1>1. UNCHANGED <<local, edit, ledger, had, raced, blob>> /\ pc[d] = "pull"
  BY DEF Pull, remote, history
<1>2. CASE blob = None
  <2>1. local[d] \in Marking(ledger)
    BY DEF Marks
  <2> QED BY <1>1, <1>2, <2>1, SyncSendKeeps DEF Pull
<1>3. CASE blob # None
  <2>1. /\ work' = [work EXCEPT ![d] = blob.of]
        /\ pc' = [pc EXCEPT ![d] = "merge"] /\ pushes' = pushes
    BY <1>3 DEF Pull, Goto
  <2>2. blob.of \in Marking(ledger) /\ blob.of # None
    BY <1>3, NoneIsNoStaging DEF Marks, Marking
  <2>3. Types'
    BY <1>1, <2>1 DEF Types, Steps
  <2>4. Marks'
    BY <1>1, <2>1, <2>2 DEF Marks, Types
  <2>5. Sends'
    BY <1>1, <2>1, NothingSent DEF Types
  <2>6. ASSUME ~raced'[d], ~(edit'[d] # None /\ pc'[d] = "write")
        PROVE  had'[d] \subseteq Staged(WillHold(d)') \cup ledger
    BY <1>1, <2>1, <2>6 DEF Held, WillHold, Types
  <2>7. Held'
    BY <1>1, <2>1, <2>6, OthersHold DEF Types, Marks
  <2> QED BY <2>3, <2>4, <2>5, <2>7
<1> QED BY <1>2, <1>3

\* What is merged holds what the browser had and what the blob brought.
LEMMA MergeEntriesKeeps ==
  ASSUME IInv, NEW d \in Device, MergeEntries(d)
  PROVE  IInv'
<1> USE DEF IInv
<1> DEFINE new == Uncommitted(Merge(local[d], work[d]))
<1>1. /\ UNCHANGED <<local, edit, ledger, raced, pushes, blob>>
      /\ pc[d] = "merge" /\ pc' = [pc EXCEPT ![d] = "write"]
      /\ work' = [work EXCEPT ![d] = new]
      /\ had' = [had EXCEPT ![d] = @ \cup (Staged(work[d]) \ ledger)]
  BY DEF MergeEntries, browser, remote, Goto
<1>2. local[d] \in Marking(ledger) /\ work[d] \in Marking(ledger)
  BY <1>1 DEF Marks
<1>3. /\ new \in Marking(ledger) /\ new # None
      /\ Staged(local[d]) \cup Staged(work[d]) \subseteq Staged(new) \cup ledger
  BY <1>2, MergeKeeps, NoneIsNoStaging DEF Marking
<1> HIDE DEF new
<1>4. Types'
  BY <1>1 DEF Types, Steps, Staged
<1>5. Marks'
  BY <1>1, <1>3 DEF Marks, Types
<1>6. Sends'
  BY <1>1, NothingSent DEF Types
<1>7. ASSUME ~raced'[d], ~(edit'[d] # None /\ pc'[d] = "write")
      PROVE  had'[d] \subseteq Staged(WillHold(d)') \cup ledger
  <2>1. edit[d] = None /\ pc'[d] = "write"
    BY <1>1, <1>7 DEF Types
  <2>2. had[d] \subseteq Staged(local[d]) \cup ledger
    BY <1>1, <1>7, <2>1 DEF Held, WillHold
  <2>3. WillHold(d)' = new
    BY <1>1, <2>1 DEF WillHold, Marks
  <2>4. had'[d] = had[d] \cup (Staged(work[d]) \ ledger)
    BY <1>1 DEF Types
  <2> QED BY <1>3, <2>2, <2>3, <2>4
<1>8. Held'
  BY <1>1, <1>7, OthersHold DEF Types, Marks
<1> QED BY <1>4, <1>5, <1>6, <1>8

LEMMA WriteMergedKeeps ==
  ASSUME IInv, NEW d \in Device, WriteMerged(d)
  PROVE  IInv'
<1> USE DEF IInv
<1>1. /\ UNCHANGED <<edit, ledger, had, blob>>
      /\ pc[d] = "write" /\ pc' = [pc EXCEPT ![d] = "send"]
      /\ local' = [local EXCEPT ![d] = work[d]]
      /\ work' = [work EXCEPT ![d] = None]
      /\ raced' = [raced EXCEPT ![d] = @ \/ edit[d] # None]
      /\ Sending(d, work[d], "claim")
  BY DEF WriteMerged, remote, Goto, Overlaps
<1>2. work[d] \in Marking(ledger) /\ pushes \in [Device -> Seq(PushOf(ledger))]
  BY <1>1 DEF Marks
<1>3. pushes' \in [Device -> Seq(PushOf(ledger))]
  BY <1>1, <1>2, SendingType
<1>4. Types'
  BY <1>1 DEF Types, Steps
<1>5. Marks'
  BY <1>1, <1>2, <1>3 DEF Marks, Types
<1>6. Sends'
  BY <1>1, <1>2, SyncSent
<1>7. ASSUME ~raced'[d]
      PROVE  had'[d] \subseteq Staged(WillHold(d)') \cup ledger
  <2>1. ~raced[d] /\ edit[d] = None
    BY <1>1, <1>7 DEF Types
  <2>2. had[d] \subseteq Staged(work[d]) \cup ledger
    BY <1>1, <2>1 DEF Held, WillHold
  <2>3. WillHold(d)' = work[d]
    BY <1>1, <2>1 DEF WillHold, Marks, Types
  <2> QED BY <1>1, <2>2, <2>3
<1>8. Held'
  BY <1>1, <1>7, OthersHold DEF Types, Marks
<1> QED BY <1>4, <1>5, <1>6, <1>8

-----------------------------------------------------------------------------
\* Steps after which the ledger may hold more, and steps that end everything.

\* What is committed stays in staging, marked.
LEMMA CommitKeeps ==
  ASSUME IInv, NEW d \in Device, Commit(d)
  PROVE  IInv'
<1> USE DEF IInv
<1>1. PICK S \in SUBSET {e \in Entry : local[d][e] = "ended"} :
        /\ ledger' = ledger \cup S
        /\ local' = [local EXCEPT ![d] =
             [e \in Entry |-> IF e \in S THEN "committed" ELSE @[e]]]
  BY DEF Commit
<1>2. /\ UNCHANGED <<edit, pushes, work, blob, had>>
      /\ pc[d] = "idle" /\ pc' = [pc EXCEPT ![d] = "publish"]
      /\ raced' = [raced EXCEPT ![d] = @ \/ edit[d] # None]
  BY DEF Commit, remote, Goto, Overlaps
<1> DEFINE new == [e \in Entry |-> IF e \in S THEN "committed" ELSE local[d][e]]
<1>3. ledger \subseteq ledger'
  BY <1>1
<1>4. /\ Marking(ledger) \subseteq Marking(ledger')
      /\ Seq(PushOf(ledger)) \subseteq Seq(PushOf(ledger'))
  BY <1>3, MarkingGrows, PushesGrow
<1>5. local[d] \in Marking(ledger)
  BY DEF Marks
<1>6. new \in Marking(ledger') /\ Staged(new) = Staged(local[d])
  BY <1>1, <1>5 DEF Marking, Staging, Stage, Staged
<1>7. local' = [local EXCEPT ![d] = new]
  BY <1>1
<1> HIDE DEF new
<1>8. Types'
  BY <1>2 DEF Types, Steps
<1>9. Marks'
  BY <1>2, <1>4, <1>6, <1>7 DEF Marks, Types
<1>10. Sends'
  BY <1>2, NothingSent DEF Types
<1>11. ASSUME NEW x \in Device, ~raced'[x],
              ~(edit'[x] # None /\ pc'[x] = "write")
       PROVE  had'[x] \subseteq Staged(WillHold(x)') \cup ledger'
  <2>1. CASE x = d
    <3>1. ~raced[d] /\ edit[d] = None /\ pc'[d] = "publish"
      BY <1>2, <1>11, <2>1 DEF Types
    <3>2. had[d] \subseteq Staged(local[d]) \cup ledger
      BY <1>2, <3>1 DEF Held, WillHold
    <3>3. WillHold(d)' = new
      BY <1>2, <1>7, <3>1 DEF WillHold, Marks
    <3> QED BY <1>2, <1>3, <1>6, <2>1, <3>2, <3>3
  <2>2. CASE x # d
    <3>1. /\ ~raced[x] /\ ~(edit[x] # None /\ pc[x] = "write")
          /\ WillHold(x)' = WillHold(x)
      BY <1>2, <1>7, <1>11, <2>2 DEF Types, Marks, WillHold
    <3> QED BY <1>2, <1>3, <3>1 DEF Held
  <2> QED BY <2>1, <2>2
<1>12. Held'
  BY <1>11 DEF Held
<1> QED BY <1>8, <1>9, <1>10, <1>12

\* What the blob of another client marks is in the ledger.
LEMMA OtherClientKeeps ==
  ASSUME IInv, OtherClient
  PROVE  IInv'
<1> USE DEF IInv
<1>1. PICK s \in Foreign :
        /\ blob' = [of |-> s, by |-> None]
        /\ ledger' = ledger \cup {e \in Entry : s[e] = "committed"}
  BY DEF OtherClient
<1>2. UNCHANGED <<local, edit, pushes, pc, work, had, raced>>
  BY DEF OtherClient, browser, syncing
<1>3. /\ Marking(ledger) \subseteq Marking(ledger')
      /\ Seq(PushOf(ledger)) \subseteq Seq(PushOf(ledger'))
  BY <1>1, MarkingGrows, PushesGrow
<1>4. s \in Marking(ledger')
  BY <1>1, ForeignAssumption DEF Marking
<1>5. Types'
  BY <1>2 DEF Types
<1>6. Marks'
  BY <1>1, <1>2, <1>3, <1>4 DEF Marks
<1>7. Sends'
  BY <1>2, NothingSent
<1>8. Held'
  BY <1>1, <1>2 DEF Held, WillHold
<1> QED BY <1>5, <1>6, <1>7, <1>8

\* A closed page has had what its store or a ledger holds.
LEMMA CloseKeeps ==
  ASSUME IInv, NEW d \in Device, Close(d)
  PROVE  IInv'
<1> USE DEF IInv
<1>1. /\ UNCHANGED <<local, ledger, blob>>
      /\ edit' = [edit EXCEPT ![d] = None] /\ work' = [work EXCEPT ![d] = None]
      /\ pushes' = [pushes EXCEPT ![d] = <<>>] /\ pc' = [pc EXCEPT ![d] = "idle"]
      /\ had' = [had EXCEPT ![d] = @ \cap (Staged(local[d]) \cup ledger)]
      /\ raced' = [raced EXCEPT ![d] = FALSE]
  BY DEF Close, remote, Goto
<1>2. Types'
  BY <1>1 DEF Types, Steps
<1>3. Marks'
  BY <1>1 DEF Marks, Types
<1>4. Sends'
  BY <1>1 DEF Sends, Marks, Types
<1>5. ASSUME ~raced'[d], ~(edit'[d] # None /\ pc'[d] = "write")
      PROVE  had'[d] \subseteq Staged(WillHold(d)') \cup ledger
  BY <1>1 DEF WillHold, Types, Marks
<1>6. Held'
  BY <1>1, <1>5, OthersHold DEF Types, Marks
<1> QED BY <1>2, <1>3, <1>4, <1>6

-----------------------------------------------------------------------------
LEMMA Inductive ==
  IInv /\ [Next]_vars => IInv'
<1> SUFFICES ASSUME IInv, [Next]_vars PROVE IInv'
  OBVIOUS
<1>1. CASE OtherClient
  BY <1>1, OtherClientKeeps
<1>2. ASSUME NEW d \in Device,
             \/ \E e \in Entry, s \in Stage : BeginEdit(d, e, s)
             \/ EndEdit(d) \/ Fire(d)
      PROVE  IInv'
  BY <1>2, BeginEditKeeps, EndEditKeeps, FireKeeps
<1>3. ASSUME NEW d \in Device, NEW i \in DOMAIN pushes[d],
             Arrive(d, i) \/ Fail(d, i) \/ ArriveCookie(d, i)
      PROVE  IInv'
  BY <1>3, ArriveKeeps, FailKeeps, ArriveCookieKeeps
<1>4. ASSUME NEW d \in Device,
             \/ GateExpired(d) \/ GateUnclaimed(d) \/ Reauthenticate(d)
             \/ PullFails(d) \/ Claim(d) \/ Expire(d) \/ Monitor(d)
      PROVE  IInv'
  BY <1>4, GateKeeps
<1>5. ASSUME NEW d \in Device,
             \/ GateMatches(d) \/ Pull(d) \/ MergeEntries(d) \/ WriteMerged(d)
             \/ Commit(d) \/ Publish(d) \/ Close(d)
      PROVE  IInv'
  BY <1>5, GateMatchesKeeps, PullKeeps, MergeEntriesKeeps, WriteMergedKeeps,
     CommitKeeps, PublishKeeps, CloseKeeps
<1>6. CASE UNCHANGED vars
  <2>1. UNCHANGED <<local, edit, pushes, pc, work, blob, ledger, had, raced>>
    BY <1>6 DEF vars, browser, syncing, remote, history
  <2> QED BY <2>1 DEF IInv, Types, Marks, Sends, Held, WillHold
<1> QED BY <1>1, <1>2, <1>3, <1>4, <1>5, <1>6 DEF Next

\* What a browser captured or merged stays in its staging until it is removed
\* there or is in a ledger, whatever pushes, syncs, commits and edits of this
\* and other clients run between each other's steps, unless an edit and a sync
\* or commit of one browser wrote its store over each other (local_cache.js
\* reads and writes the whole list without a lock).
THEOREM NoSyncDropsEntries == Spec => []EntryKept
<1>1. IInv => EntryKept
  <2> SUFFICES ASSUME IInv, NEW d \in Device, NEW e \in had[d],
                      edit[d] = None, pc[d] # "write", ~raced[d]
               PROVE  local[d][e] # "absent" \/ e \in ledger
    BY DEF EntryKept
  <2>1. e \in Staged(local[d]) \cup ledger
    BY DEF IInv, Held, WillHold
  <2> QED BY <2>1 DEF Staged
<1> QED BY <1>1, Initially, Inductive, PTL DEF Spec

-----------------------------------------------------------------------------
(***************************************************************************)
(* What is owed to the remote.  Pushes may arrive in any order, but a push  *)
(* that has been overtaken is marked as late, and owed once it arrives.  So *)
(* either all pushes that still carry a blob are late, and the blob of the *)
(* browser is what is staged (Brought), or the push that read staging last  *)
(* is on its way and carries what is staged (LastBrings).                   *)
(***************************************************************************)
Flags ==
  /\ key \in [Device -> BOOLEAN]
  /\ timer \in [Device -> BOOLEAN]
  /\ owed \in [Device -> BOOLEAN]

Brought(d) ==
  /\ blob # None /\ blob.by = d => blob.of = local[d]
  /\ \A i \in DOMAIN pushes[d] : pushes[d][i].at = "blob" => pushes[d][i].late

LastBrings(d) ==
  \E i \in DOMAIN pushes[d] :
    /\ \A j \in DOMAIN pushes[d] : j <= i
    /\ pushes[d][i].at = "blob" /\ ~pushes[d][i].late
    /\ pushes[d][i].of = local[d]

CurrentAt(d) ==
  timer[d] \/ pc[d] = "publish" \/ owed[d] \/ Brought(d) \/ LastBrings(d)

Current == \A d \in Device : CurrentAt(d)

\* A step of browser d leaves the others as current as they were: it writes its
\* own blob at most.
LEMMA OthersCurrent ==
  ASSUME Current, NEW d \in Device,
         \A x \in Device \ {d} :
           /\ local'[x] = local[x] /\ timer'[x] = timer[x] /\ pc'[x] = pc[x]
           /\ owed'[x] = owed[x] /\ pushes'[x] = pushes[x],
         blob' = blob \/ (blob' # None => blob'.by = d),
         CurrentAt(d)'
  PROVE  Current'
<1> SUFFICES ASSUME NEW x \in Device \ {d} PROVE CurrentAt(x)'
  BY DEF Current
<1>1. CurrentAt(x)
  BY DEF Current
<1> QED BY <1>1 DEF CurrentAt, Brought, LastBrings

\* The elements of what Sending appends to.
LEMMA SendingBrings ==
  ASSUME NEW d \in Device, NEW s \in Marking(ledger), NEW caller,
         pushes \in [Device -> Seq(PushOf(ledger))],
         caller \in {"edit", "gate", "claim", "commit"},
         Sending(d, s, caller), local'[d] = s
  PROVE  /\ LastBrings(d)'
         /\ \A x \in Device \ {d} : pushes'[x] = pushes[x]
<1> DEFINE p == [of |-> s, for |-> caller, at |-> "blob", late |-> FALSE]
           q == Append(pushes[d], p)
<1>1. pushes' = [pushes EXCEPT ![d] = q]
  BY DEF Sending
<1>2. pushes[d] \in Seq(PushOf(ledger)) /\ p \in PushOf(ledger)
  BY DEF PushOf
<1>3. /\ DOMAIN q = 1..(Len(pushes[d]) + 1) /\ Len(pushes[d]) \in Nat
      /\ q[Len(pushes[d]) + 1] = p
  BY <1>2
<1>4. pushes'[d] = q /\ \A x \in Device \ {d} : pushes'[x] = pushes[x]
  BY <1>1
<1>5. p.at = "blob" /\ ~p.late /\ p.of = s
  OBVIOUS
<1> HIDE DEF p, q
<1>6. LastBrings(d)'
  <2> DEFINE n == Len(pushes[d]) + 1
  <2>1. n \in DOMAIN q /\ (\A j \in DOMAIN q : j <= n) /\ q[n] = p
    BY <1>3
  <2> HIDE DEF n
  <2> QED BY <1>4, <1>5, <2>1 DEF LastBrings
<1> QED BY <1>4, <1>6

\* After a push has arrived those that read staging before it are late.
LEMMA OvertakenElements ==
  ASSUME NEW L, NEW s \in Seq(PushOf(L)), NEW i \in DOMAIN s, NEW j \in DOMAIN s
  PROVE  /\ Overtaken(s, i)[j].at = s[j].at /\ Overtaken(s, i)[j].of = s[j].of
         /\ Overtaken(s, i)[j].late = (s[j].late \/ j < i)
<1>1. s[j] \in PushOf(L)
  OBVIOUS
<1>2. Overtaken(s, i)[j] = IF j < i THEN [s[j] EXCEPT !.late = TRUE] ELSE s[j]
  BY DEF Overtaken
<1> QED BY <1>1, <1>2 DEF PushOf

\* A push leaves a browser without bringing anything: the others are as late,
\* and the last of them is the last.
LEMMA RemovalCurrent ==
  ASSUME NEW d \in Device, NEW i \in DOMAIN pushes[d],
         pushes[d] \in Seq(PushOf(ledger)),
         pushes'[d] = RemoveAt(pushes[d], i), pushes[d][i].at # "blob",
         local'[d] = local[d], blob' = blob
  PROVE  /\ Brought(d) => Brought(d)'
         /\ LastBrings(d) => LastBrings(d)'
<1> DEFINE s == pushes[d]
           r == RemoveAt(s, i)
           at(j) == IF j < i THEN j ELSE j + 1
<1>1. /\ DOMAIN s = 1..Len(s) /\ Len(s) \in Nat /\ i \in 1..Len(s)
      /\ DOMAIN r = 1..(Len(s) - 1)
      /\ \A j \in DOMAIN r : r[j] = IF j < i THEN s[j] ELSE s[j + 1]
  BY RemoveAtElements
<1>2. \A j \in DOMAIN r : at(j) \in DOMAIN s /\ r[j] = s[at(j)]
  BY <1>1
<1>3. Brought(d) => Brought(d)'
  BY <1>2 DEF Brought
<1>4. ASSUME LastBrings(d) PROVE LastBrings(d)'
  <2>1. PICK k \in DOMAIN s :
          /\ \A j \in DOMAIN s : j <= k
          /\ s[k].at = "blob" /\ ~s[k].late /\ s[k].of = local[d]
    BY <1>4 DEF LastBrings
  <2>2. k = Len(s) /\ k # i
    <3>1. Len(s) \in DOMAIN s /\ k \in 1..Len(s)
      BY <1>1
    <3>2. Len(s) <= k
      BY <2>1, <3>1
    <3> QED BY <1>1, <2>1, <3>1, <3>2
  <2> DEFINE m == Len(s) - 1
  <2>3. m \in DOMAIN r /\ r[m] = s[k] /\ \A j \in DOMAIN r : j <= m
    BY <1>1, <2>2, SMTT(30)
  <2> HIDE DEF r, m
  <2>4. pushes'[d] = r
    BY DEF r
  <2> QED BY <2>1, <2>3, <2>4 DEF LastBrings
<1> QED BY <1>3, <1>4

\* A push that was not late brings what is staged if it was the last one.
LEMMA ArriveCurrent ==
  ASSUME IInv, Flags, Current, NEW d \in Device, NEW i \in DOMAIN pushes[d],
         Arrive(d, i)
  PROVE  Flags' /\ Current'
<1> DEFINE s == pushes[d]
           p == s[i]
           t == Overtaken(s, i)
<1>1. /\ UNCHANGED <<local, key, timer, work, edit>>
      /\ p.at = "blob" /\ blob' = [of |-> p.of, by |-> d]
      /\ pushes' = [pushes EXCEPT ![d] = IF p.for = "edit" THEN [t EXCEPT ![i].at = "cookie"]
                                                         ELSE RemoveAt(t, i)]
      /\ Settle(d, p)
      /\ \E step \in Steps : pc' = [pc EXCEPT ![d] = step]
      /\ pc' = pc \/ p.for # "edit"
  <2>1. pc' = [pc EXCEPT ![d] = CASE p.for = "edit"  -> @
                                  [] p.for = "claim" -> "claim"
                                  [] OTHER           -> "idle"]
    BY DEF Arrive
  <2>2. pc \in [Device -> Steps]
    BY DEF IInv, Types
  <2>3. (\E step \in Steps : pc' = [pc EXCEPT ![d] = step]) /\ (pc' = pc \/ p.for # "edit")
    BY <2>1, <2>2 DEF Steps
  <2> QED BY <2>3 DEF Arrive
<1>2. /\ pushes \in [Device -> Seq(PushOf(ledger))] /\ s \in Seq(PushOf(ledger))
      /\ p \in PushOf(ledger) /\ pc \in [Device -> Steps]
  <2>1. pushes \in [Device -> Seq(PushOf(ledger))] /\ pc \in [Device -> Steps]
    BY DEF IInv, Marks, Types
  <2> QED BY <2>1, PushType
<1>3. /\ t \in Seq(PushOf(ledger)) /\ DOMAIN t = DOMAIN s
      /\ \A j \in DOMAIN s : /\ t[j].at = s[j].at /\ t[j].of = s[j].of
                             /\ t[j].late = (s[j].late \/ j < i)
  BY <1>2, OvertakenType, OvertakenElements
<1>4. /\ DOMAIN s = 1..Len(s) /\ Len(s) \in Nat /\ i \in 1..Len(s)
  BY <1>2
<1>5. owed'[d] = (p.late \/ (owed[d] /\ ~(p.of = local[d] /\ Len(s) = 1)))
      /\ \A x \in Device \ {d} : owed'[x] = owed[x]
  BY <1>1 DEF Settle, Flags
<1>6. Flags'
  <2>1. p.late \in BOOLEAN
    BY <1>2 DEF PushOf
  <2> QED BY <1>1, <2>1 DEF Flags, Settle
<1> HIDE DEF t
<1>7. CurrentAt(d)'
  <2> SUFFICES ASSUME ~timer[d], pc'[d] # "publish", ~owed'[d]
               PROVE  Brought(d)' \/ LastBrings(d)'
    BY <1>1 DEF CurrentAt
  <2>1. ~p.late
    BY <1>5
  <2>2. pc[d] # "publish"
    BY <1>1 DEF IInv, Sends
  <2>3. \/ p.of = local[d] /\ \A j \in DOMAIN s : j <= i
        \/ \E k \in DOMAIN s : /\ \A j \in DOMAIN s : j <= k
                               /\ k # i /\ s[k].at = "blob" /\ ~s[k].late
                               /\ s[k].of = local[d]
    <3>1. CASE owed[d]
      <4>1. p.of = local[d] /\ Len(s) = 1
        BY <1>5, <3>1
      <4> QED BY <1>4, <4>1
    <3>2. CASE ~owed[d]
      <4>1. Brought(d) \/ LastBrings(d)
        BY <2>2, <3>2 DEF Current, CurrentAt
      <4>2. LastBrings(d)
        BY <1>1, <2>1, <4>1 DEF Brought
      <4> QED BY <4>2 DEF LastBrings
    <3> QED BY <3>1, <3>2
  <2> DEFINE r == IF p.for = "edit" THEN [t EXCEPT ![i].at = "cookie"]
                                    ELSE RemoveAt(t, i)
             from(j) == IF p.for = "edit" \/ j < i THEN j ELSE j + 1
  <2>4. pushes'[d] = r
    BY <1>1, <1>2
  <2>5. \A j \in DOMAIN r : r[j].at = "blob" =>
            from(j) \in DOMAIN s /\ from(j) # i /\ r[j] = t[from(j)]
    <3>1. CASE p.for = "edit"
      <4>1. r = [t EXCEPT ![i] = [t[i] EXCEPT !.at = "cookie"]]
        BY <3>1
      <4>2. DOMAIN r = DOMAIN t /\ \A j \in DOMAIN t \ {i} : r[j] = t[j]
        BY <4>1
      <4>3. r[i].at = "cookie"
        <5>1. t[i] \in PushOf(ledger)
          BY <1>3
        <5> QED BY <1>3, <4>1, <5>1 DEF PushOf
      <4> QED BY <1>3, <3>1, <4>2, <4>3
    <3>2. CASE p.for # "edit"
      <4>1. r = RemoveAt(t, i)
        BY <3>2
      <4>2. /\ DOMAIN r = 1..(Len(t) - 1) /\ Len(t) = Len(s)
            /\ \A j \in DOMAIN r : r[j] = IF j < i THEN t[j] ELSE t[j + 1]
        BY <1>3, <1>4, <4>1, RemoveAtElements
      <4> QED BY <1>4, <3>2, <4>2
    <3> QED BY <3>1, <3>2
  <2>6. CASE p.of = local[d] /\ \A j \in DOMAIN s : j <= i
    <3>1. \A j \in DOMAIN r : r[j].at = "blob" => r[j].late
      <4> SUFFICES ASSUME NEW j \in DOMAIN r, r[j].at = "blob" PROVE r[j].late
        OBVIOUS
      <4>1. from(j) \in DOMAIN s /\ from(j) # i /\ r[j] = t[from(j)]
        BY <2>5
      <4> HIDE DEF from, r
      <4>2. from(j) < i
        BY <1>4, <2>6, <4>1
      <4> QED BY <1>3, <4>1, <4>2
    <3> HIDE DEF r
    <3> QED BY <1>1, <2>4, <2>6, <3>1 DEF Brought
  <2>7. CASE \E k \in DOMAIN s : /\ \A j \in DOMAIN s : j <= k
                               /\ k # i /\ s[k].at = "blob" /\ ~s[k].late
                               /\ s[k].of = local[d]
    <3>1. PICK k \in DOMAIN s : /\ \A j \in DOMAIN s : j <= k
                               /\ k # i /\ s[k].at = "blob" /\ ~s[k].late
                               /\ s[k].of = local[d]
      BY <2>7
    <3>2. k = Len(s) /\ i < k
      <4>1. Len(s) \in DOMAIN s /\ k \in 1..Len(s)
        BY <1>4
      <4>2. Len(s) <= k
        BY <3>1, <4>1
      <4> QED BY <1>4, <3>1, <4>1, <4>2
    <3>3. t[k].at = "blob" /\ ~t[k].late /\ t[k].of = local[d]
      <4>1. ~(k < i)
        BY <1>4, <3>2
      <4> QED BY <1>3, <3>1, <4>1
    <3>4. \E m \in DOMAIN r : (\A j \in DOMAIN r : j <= m) /\ r[m] = t[k]
      <4>1. CASE p.for = "edit"
        <5>1. DOMAIN r = DOMAIN t /\ r[k] = t[k]
          BY <1>3, <3>1, <4>1
        <5> HIDE DEF r
        <5> QED BY <1>3, <3>1, <5>1
      <4>2. CASE p.for # "edit"
        <5>1. r = RemoveAt(t, i)
          BY <4>2
        <5>2. /\ DOMAIN r = 1..(Len(t) - 1) /\ Len(t) = Len(s)
              /\ \A j \in DOMAIN r : r[j] = IF j < i THEN t[j] ELSE t[j + 1]
          BY <1>3, <1>4, <5>1, RemoveAtElements
        <5> HIDE DEF r
        <5> DEFINE m == Len(s) - 1
        <5>3. m \in DOMAIN r /\ (\A j \in DOMAIN r : j <= m) /\ r[m] = t[m + 1]
          BY <1>4, <3>2, <5>2
        <5>4. m + 1 = k
          BY <1>4, <3>2
        <5> QED BY <5>3, <5>4
      <4> QED BY <4>1, <4>2
    <3> HIDE DEF r
    <3> QED BY <1>1, <2>4, <3>3, <3>4 DEF LastBrings
  <2> QED BY <2>3, <2>6, <2>7
<1>8. \A x \in Device \ {d} : /\ pushes'[x] = pushes[x] /\ pc'[x] = pc[x]
  BY <1>1, <1>2
<1>9. blob' # None => blob'.by = d
  BY <1>1
<1>10. Current'
  BY <1>1, <1>5, <1>7, <1>8, <1>9, OthersCurrent
<1> QED BY <1>6, <1>10

\* Steps that neither push nor write staging.
LEMMA QuietCurrent ==
  ASSUME IInv, Flags, Current, NEW d \in Device,
         UNCHANGED <<local, timer, owed, pushes, blob>>,
         key' \in [Device -> BOOLEAN],
         \/ pc' = pc
         \/ pc[d] # "publish" /\ \E step \in Steps : pc' = [pc EXCEPT ![d] = step]
  PROVE  Flags' /\ Current'
<1>1. pc \in [Device -> Steps]
  BY DEF IInv, Types
<1>2. ASSUME NEW x \in Device PROVE CurrentAt(x)'
  <2>1. CurrentAt(x)
    BY DEF Current
  <2>2. pc[x] = "publish" => pc'[x] = "publish"
    BY <1>1
  <2> QED BY <2>1, <2>2 DEF CurrentAt, Brought, LastBrings
<1> QED BY <1>2 DEF Flags, Current

LEMMA QuietActions ==
  ASSUME IInv, Flags, Current, NEW d \in Device,
         \/ \E e \in Entry, s \in Stage : BeginEdit(d, e, s)
         \/ GateExpired(d) \/ GateUnclaimed(d) \/ Reauthenticate(d)
         \/ PullFails(d) \/ MergeEntries(d) \/ Claim(d) \/ Expire(d) \/ Monitor(d)
         \/ Pull(d) /\ blob # None
  PROVE  Flags' /\ Current'
<1>1. UNCHANGED <<local, timer, owed, pushes, blob>>
  BY DEF BeginEdit, GateExpired, GateUnclaimed, Reauthenticate, PullFails,
         MergeEntries, Claim, Expire, Monitor, Pull, browser, syncing, remote, history
<1>2. key' \in [Device -> BOOLEAN]
  BY DEF Flags, BeginEdit, GateExpired, GateUnclaimed, Reauthenticate, PullFails,
         MergeEntries, Claim, Expire, Monitor, Pull, browser, syncing, remote, history
<1>3. \/ pc' = pc
      \/ pc[d] # "publish" /\ \E step \in Steps : pc' = [pc EXCEPT ![d] = step]
  BY DEF BeginEdit, GateExpired, GateUnclaimed, Reauthenticate, PullFails, Steps,
         MergeEntries, Claim, Expire, Monitor, Pull, syncing, Goto
<1> QED BY <1>1, <1>2, <1>3, QuietCurrent

\* A push that has read staging last brings it.
LEMMA SendCurrent ==
  ASSUME IInv, Flags, Current, NEW d \in Device, NEW s \in Marking(ledger),
         NEW caller \in {"edit", "gate", "claim", "commit"}, Sending(d, s, caller),
         local'[d] = s, \A x \in Device \ {d} : local'[x] = local[x],
         UNCHANGED <<key, owed, blob>>,
         timer' \in [Device -> BOOLEAN],
         \A x \in Device \ {d} : timer'[x] = timer[x] /\ pc'[x] = pc[x]
  PROVE  Flags' /\ Current'
<1>1. LastBrings(d)' /\ \A x \in Device \ {d} : pushes'[x] = pushes[x]
  BY SendingBrings DEF IInv, Marks
<1>2. CurrentAt(d)'
  BY <1>1 DEF CurrentAt
<1> QED BY <1>1, <1>2, OthersCurrent DEF Flags

LEMMA SendActions ==
  ASSUME IInv, Flags, Current, NEW d \in Device,
         Fire(d) \/ GateMatches(d) \/ (Pull(d) /\ blob = None) \/ WriteMerged(d)
  PROVE  Flags' /\ Current'
<1>1. local \in [Device -> Marking(ledger)] /\ pc \in [Device -> Steps]
      /\ (pc[d] = "write" => work[d] \in Marking(ledger))
  BY DEF IInv, Marks, Types
<1>2. CASE Fire(d)
  <2>1. UNCHANGED <<local, key, owed, blob, pc>> /\ Sending(d, local[d], "edit")
        /\ timer' = [timer EXCEPT ![d] = FALSE]
    BY <1>2 DEF Fire, syncing, remote, history
  <2> QED BY <1>1, <2>1, SendCurrent DEF Flags
<1>3. CASE GateMatches(d)
  <2>1. UNCHANGED <<local, key, owed, blob, timer>> /\ Sending(d, local[d], "gate")
        /\ pc' = [pc EXCEPT ![d] = "send"]
    BY <1>3 DEF GateMatches, Goto, remote, history
  <2> QED BY <1>1, <2>1, SendCurrent DEF Flags
<1>4. CASE Pull(d) /\ blob = None
  <2>1. UNCHANGED <<local, key, owed, blob, timer>> /\ Sending(d, local[d], "claim")
        /\ pc' = [pc EXCEPT ![d] = "send"]
    BY <1>4 DEF Pull, Goto, remote, history
  <2> QED BY <1>1, <2>1, SendCurrent DEF Flags
<1>5. CASE WriteMerged(d)
  <2>1. UNCHANGED <<key, owed, blob, timer>> /\ Sending(d, work[d], "claim")
        /\ pc' = [pc EXCEPT ![d] = "send"] /\ local' = [local EXCEPT ![d] = work[d]]
        /\ pc[d] = "write"
    BY <1>5 DEF WriteMerged, Goto, remote
  <2> QED BY <1>1, <2>1, SendCurrent DEF Flags
<1> QED BY <1>2, <1>3, <1>4, <1>5

\* Steps after which a push is to follow, or is known to be missing.
LEMMA OwingActions ==
  ASSUME IInv, Flags, Current, NEW d \in Device,
         EndEdit(d) \/ Commit(d)
  PROVE  Flags' /\ Current'
<1>1. local \in [Device -> Marking(ledger)] /\ pc \in [Device -> Steps]
  BY DEF IInv, Marks, Types
<1>2. CASE EndEdit(d)
  <2>1. /\ UNCHANGED <<key, pushes, pc, blob>>
        /\ local' = [local EXCEPT ![d] = edit[d]]
        /\ timer' = [timer EXCEPT ![d] = @ \/ key[d]]
        /\ owed' = [owed EXCEPT ![d] = @ \/ ~key[d]]
    BY <1>2 DEF EndEdit, Schedule, syncing, remote
  <2>2. Flags' /\ (timer'[d] \/ owed'[d])
    BY <2>1 DEF Flags
  <2>3. CurrentAt(d)'
    BY <2>2 DEF CurrentAt
  <2> QED BY <1>1, <2>1, <2>2, <2>3, OthersCurrent DEF Flags
<1>3. CASE Commit(d)
  <2>1. /\ UNCHANGED <<key, pushes, blob, timer, owed>>
        /\ \E s : local' = [local EXCEPT ![d] = s]
        /\ pc' = [pc EXCEPT ![d] = "publish"]
    BY <1>3 DEF Commit, Goto, remote
  <2>2. CurrentAt(d)'
    BY <1>1, <2>1 DEF CurrentAt
  <2> QED BY <1>1, <2>1, <2>2, OthersCurrent DEF Flags
<1> QED BY <1>2, <1>3

LEMMA PublishCurrent ==
  ASSUME IInv, Flags, Current, NEW d \in Device, Publish(d)
  PROVE  Flags' /\ Current'
<1>1. CASE Sending(d, local[d], "commit")
  <2>1. UNCHANGED <<local, key, blob, timer>>
    BY DEF Publish, remote
  <2>2. local \in [Device -> Marking(ledger)] /\ pc \in [Device -> Steps]
    BY DEF IInv, Marks, Types
  <2>3. pushes' # pushes
    <3>1. pushes \in [Device -> Seq(PushOf(ledger))] /\ pushes[d] \in Seq(PushOf(ledger))
      BY DEF IInv, Marks
    <3> DEFINE p == [of |-> local[d], for |-> "commit", at |-> "blob", late |-> FALSE]
    <3>2. p \in PushOf(ledger)
      BY <2>2 DEF PushOf
    <3>3. pushes'[d] = Append(pushes[d], p)
      BY <1>1, <3>1 DEF Sending
    <3> HIDE DEF p
    <3>4. Len(Append(pushes[d], p)) = Len(pushes[d]) + 1 /\ Len(pushes[d]) \in Nat
      BY <3>1, <3>2
    <3>5. Len(pushes'[d]) # Len(pushes[d])
      BY <3>3, <3>4
    <3> QED BY <3>5
  <2>4. UNCHANGED owed /\ pc' = [pc EXCEPT ![d] = "send"]
    BY <2>3 DEF Publish, Goto
  <2> QED BY <1>1, <2>1, <2>2, <2>4, SendCurrent DEF Flags
<1>2. CASE ~Sending(d, local[d], "commit")
  <2>1. /\ UNCHANGED <<key, pushes, blob, timer, local>>
        /\ owed' = [owed EXCEPT ![d] = TRUE]
        /\ pc' = [pc EXCEPT ![d] = "idle"]
    BY <1>2 DEF Publish, Goto, remote
  <2>2. CurrentAt(d)' /\ pc \in [Device -> Steps]
    BY <2>1 DEF CurrentAt, Flags, IInv, Types
  <2> QED BY <2>1, <2>2, OthersCurrent DEF Flags
<1> QED BY <1>1, <1>2

\* What a failure, a closed page or another client does to the blob, and to the
\* pushes that would have changed it.
LEMMA FaultActions ==
  ASSUME IInv, Flags, Current, NEW d \in Device,
         \/ \E i \in DOMAIN pushes[d] : Fail(d, i)
         \/ Close(d) \/ OtherClient
  PROVE  Flags' /\ Current'
<1>1. /\ local \in [Device -> Marking(ledger)] /\ pc \in [Device -> Steps]
      /\ pushes \in [Device -> Seq(PushOf(ledger))]
  BY DEF IInv, Marks, Types
<1>2. ASSUME NEW i \in DOMAIN pushes[d], Fail(d, i)
      PROVE  Flags' /\ Current'
  <2>1. /\ UNCHANGED <<local, timer>>
        /\ blob' \in {blob, [of |-> pushes[d][i].of, by |-> d]}
        /\ key' \in {key, [key EXCEPT ![d] = @ /\ pushes[d][i].for # "claim"]}
        /\ owed' = [owed EXCEPT ![d] = TRUE]
        /\ \E s : pushes' = [pushes EXCEPT ![d] = s]
        /\ \E s : pc' = [pc EXCEPT ![d] = s]
    BY <1>2 DEF Fail
  <2>2. CurrentAt(d)'
    BY <2>1 DEF CurrentAt, Flags
  <2>3. Flags'
    BY <2>1 DEF Flags
  <2>4. blob' = blob \/ (blob' # None => blob'.by = d)
    BY <2>1
  <2> QED BY <1>1, <2>1, <2>2, <2>3, <2>4, OthersCurrent DEF Flags
<1>3. CASE Close(d)
  <2>1. /\ UNCHANGED <<local, blob>>
        /\ owed' = [owed EXCEPT ![d] = @ \/ timer[d] \/ pushes[d] # <<>>
                                          \/ pc[d] = "publish"]
        /\ key' = [key EXCEPT ![d] = FALSE] /\ timer' = [timer EXCEPT ![d] = FALSE]
        /\ pushes' = [pushes EXCEPT ![d] = <<>>]
        /\ pc' = [pc EXCEPT ![d] = "idle"]
    BY <1>3 DEF Close, Goto, remote
  <2>2. Flags'
    BY <2>1 DEF Flags
  <2>3. owed'[d] \/ (pushes[d] = <<>> /\ CurrentAt(d) /\ ~timer[d] /\ ~owed[d]
                        /\ pc[d] # "publish")
    BY <2>1 DEF Flags, Current
  <2>4. CASE owed'[d]
    <3>1. CurrentAt(d)'
      BY <2>4 DEF CurrentAt
    <3> QED BY <1>1, <2>1, <2>2, <3>1, OthersCurrent DEF Flags
  <2>5. CASE pushes[d] = <<>> /\ CurrentAt(d) /\ ~timer[d] /\ ~owed[d]
                        /\ pc[d] # "publish"
    <3>1. Brought(d) /\ pushes'[d] = <<>>
      BY <1>1, <2>1, <2>5 DEF CurrentAt, LastBrings
    <3>2. CurrentAt(d)'
      BY <2>1, <3>1 DEF CurrentAt, Brought
    <3> QED BY <1>1, <2>1, <2>2, <3>2, OthersCurrent DEF Flags
  <2> QED BY <2>3, <2>4, <2>5
<1>4. CASE OtherClient
  <2>1. UNCHANGED <<local, key, timer, pushes, pc, owed>>
        /\ \E s : blob' = [of |-> s, by |-> None]
    BY <1>4 DEF OtherClient, browser, syncing
  <2>2. ASSUME NEW x \in Device PROVE CurrentAt(x)'
    <3>1. CurrentAt(x) /\ blob'.by # x
      BY <2>1, NoneAssumption DEF Current
    <3> QED BY <2>1, <3>1 DEF CurrentAt, Brought, LastBrings
  <2> QED BY <2>1, <2>2 DEF Flags, Current
<1> QED BY <1>2, <1>3, <1>4

LEMMA ArriveCookieCurrent ==
  ASSUME IInv, Flags, Current, NEW d \in Device, NEW i \in DOMAIN pushes[d],
         ArriveCookie(d, i)
  PROVE  Flags' /\ Current'
<1>1. /\ UNCHANGED <<local, key, timer, pc, blob, owed>>
      /\ pushes[d][i].at # "blob"
      /\ pushes' = [pushes EXCEPT ![d] = RemoveAt(@, i)]
  BY DEF ArriveCookie, syncing
<1>2. pushes \in [Device -> Seq(PushOf(ledger))] /\ pushes[d] \in Seq(PushOf(ledger))
  BY DEF IInv, Marks
<1>3. pushes'[d] = RemoveAt(pushes[d], i) /\ \A x \in Device \ {d} : pushes'[x] = pushes[x]
  BY <1>1, <1>2
<1>4. (Brought(d) => Brought(d)') /\ (LastBrings(d) => LastBrings(d)')
  BY <1>1, <1>2, <1>3, RemovalCurrent
<1>5. CurrentAt(d)'
  BY <1>1, <1>4 DEF Current, CurrentAt
<1> QED BY <1>1, <1>3, <1>5, OthersCurrent DEF Flags

LEMMA CurrentInductive ==
  IInv /\ Flags /\ Current /\ [Next]_vars => Flags' /\ Current'
<1> SUFFICES ASSUME IInv, Flags, Current, [Next]_vars PROVE Flags' /\ Current'
  OBVIOUS
<1>1. CASE OtherClient
  <2>1. CASE Device = {}
    BY <1>1, <2>1 DEF Flags, Current, OtherClient, browser, syncing
  <2>2. CASE Device # {}
    BY <1>1, <2>2, FaultActions
  <2> QED BY <2>1, <2>2
<1>2. ASSUME NEW d \in Device,
             \/ \E e \in Entry, s \in Stage : BeginEdit(d, e, s)
             \/ GateExpired(d) \/ GateUnclaimed(d) \/ Reauthenticate(d)
             \/ PullFails(d) \/ MergeEntries(d) \/ Claim(d) \/ Expire(d) \/ Monitor(d)
      PROVE  Flags' /\ Current'
  BY <1>2, QuietActions
<1>3. ASSUME NEW d \in Device, NEW i \in DOMAIN pushes[d],
             Arrive(d, i) \/ Fail(d, i) \/ ArriveCookie(d, i)
      PROVE  Flags' /\ Current'
  BY <1>3, ArriveCurrent, FaultActions, ArriveCookieCurrent
<1>4. ASSUME NEW d \in Device, Fire(d) \/ GateMatches(d) \/ Pull(d) \/ WriteMerged(d)
      PROVE  Flags' /\ Current'
  <2>1. CASE Pull(d) /\ blob # None
    BY <2>1, QuietActions
  <2>2. CASE Fire(d) \/ GateMatches(d) \/ (Pull(d) /\ blob = None) \/ WriteMerged(d)
    BY <2>2, SendActions
  <2> QED BY <1>4, <2>1, <2>2
<1>5. ASSUME NEW d \in Device, EndEdit(d) \/ Commit(d) \/ Publish(d) \/ Close(d)
      PROVE  Flags' /\ Current'
  BY <1>5, OwingActions, PublishCurrent, FaultActions
<1>6. CASE UNCHANGED vars
  <2>1. UNCHANGED <<local, key, timer, owed, pushes, pc, blob>>
    BY <1>6 DEF vars, browser, syncing, remote, history
  <2> QED BY <2>1 DEF Flags, Current, CurrentAt, Brought, LastBrings
<1> QED BY <1>1, <1>2, <1>3, <1>4, <1>5, <1>6 DEF Next

\* Whenever what a browser has staged differs from the blob it wrote itself, a
\* timer is armed, a push is under way or a push is known to be owed, however
\* edits, commits, syncs and pushes run between each other and in whatever
\* order pushes arrive (_schedulePush in user_actions.js fires without waiting
\* for a push that is under way).
THEOREM StagingIsPushed == Spec => []ChangesArePushed
<1>1. Init => Flags /\ Current
  BY DEF Init, Flags, Current, CurrentAt, Brought
<1>2. Current => ChangesArePushed
  BY DEF Current, CurrentAt, Brought, LastBrings, ChangesArePushed
<1> QED BY <1>1, <1>2, Initially, Inductive, CurrentInductive, PTL DEF Spec

-----------------------------------------------------------------------------
(***************************************************************************)
(* Type correctness.  Beyond Types, Marks, Sends and Flags it takes that a  *)
(* sync waits only while its push is there, that only the push of an edit   *)
(* goes on to its cookie, and that the pushes under way are finitely many.  *)
(***************************************************************************)
Scalars ==
  /\ cookie \in [Device -> {"none", "fresh", "expired"}]
  /\ blob = None \/ blob \in [of : Staging, by : Device \cup {None}]
  /\ rcookie \in Device \cup {None, Stale}
  /\ ledger \subseteq Entry
  /\ edits \in 0..MaxEdits /\ faults \in 0..MaxFaults

WaitsAt(d) ==
  /\ work[d] # None => pc[d] \in {"merge", "write"}
  /\ pc[d] = "send" => \E i \in DOMAIN pushes[d] : pushes[d][i].for # "edit"
  /\ \A i \in DOMAIN pushes[d] : pushes[d][i].at = "cookie" => pushes[d][i].for = "edit"

Waits == \A d \in Device : WaitsAt(d)

Bounded == IsFiniteSet(UnderWay) /\ Cardinality(UnderWay) <= MaxPushes

\* A step of browser d.
LEMMA OthersWait ==
  ASSUME Waits, NEW d \in Device, WaitsAt(d)',
         \A x \in Device \ {d} :
           pushes'[x] = pushes[x] /\ pc'[x] = pc[x] /\ work'[x] = work[x]
  PROVE  Waits'
BY DEF Waits, WaitsAt

\* Sending adds one push, in a place of its own.
LEMMA SendingElements ==
  ASSUME NEW d \in Device, NEW s \in Marking(ledger),
         NEW caller \in {"edit", "gate", "claim", "commit"},
         pushes \in [Device -> Seq(PushOf(ledger))], Sending(d, s, caller)
  PROVE  /\ \A x \in Device \ {d} : pushes'[x] = pushes[x]
         /\ DOMAIN pushes'[d] = DOMAIN pushes[d] \cup {Len(pushes[d]) + 1}
         /\ Len(pushes[d]) + 1 \notin DOMAIN pushes[d]
         /\ \A i \in DOMAIN pushes[d] : pushes'[d][i] = pushes[d][i]
         /\ pushes'[d][Len(pushes[d]) + 1].for = caller
         /\ pushes'[d][Len(pushes[d]) + 1].at = "blob"
<1> DEFINE p == [of |-> s, for |-> caller, at |-> "blob", late |-> FALSE]
<1>1. pushes[d] \in Seq(PushOf(ledger)) /\ p \in PushOf(ledger)
  BY DEF PushOf
<1>2. pushes'[d] = Append(pushes[d], p) /\ \A x \in Device \ {d} : pushes'[x] = pushes[x]
  BY DEF Sending
<1>3. p.for = caller /\ p.at = "blob"
  OBVIOUS
<1> HIDE DEF p
<1>4. /\ DOMAIN Append(pushes[d], p) = 1..(Len(pushes[d]) + 1)
      /\ DOMAIN pushes[d] = 1..Len(pushes[d]) /\ Len(pushes[d]) \in Nat
      /\ \A i \in 1..Len(pushes[d]) : Append(pushes[d], p)[i] = pushes[d][i]
      /\ Append(pushes[d], p)[Len(pushes[d]) + 1] = p
  BY <1>1
<1> QED BY <1>2, <1>3, <1>4

LEMMA SendingBounded ==
  ASSUME NEW d \in Device, NEW s \in Marking(ledger),
         NEW caller \in {"edit", "gate", "claim", "commit"},
         pushes \in [Device -> Seq(PushOf(ledger))], Sending(d, s, caller),
         Bounded
  PROVE  Bounded'
<1> DEFINE new == <<d, Len(pushes[d]) + 1>>
<1>1. UnderWay' = UnderWay \cup {new}
  BY SendingElements DEF UnderWay
<1>2. Cardinality(UnderWay) < MaxPushes /\ IsFiniteSet(UnderWay)
  BY DEF Sending, Bounded
<1>3. Cardinality(UnderWay) \in Nat
  BY <1>2, FS_CardinalityType
<1>4. /\ IsFiniteSet(UnderWay \cup {new})
      /\ Cardinality(UnderWay \cup {new}) <= Cardinality(UnderWay) + 1
  <2> HIDE DEF new
  <2>1. /\ IsFiniteSet(UnderWay \cup {new})
        /\ Cardinality(UnderWay \cup {new})
             = IF new \in UnderWay THEN Cardinality(UnderWay) ELSE Cardinality(UnderWay) + 1
    BY <1>2, FS_AddElement
  <2> QED BY <1>3, <2>1
<1>5. MaxPushes \in Nat
  BY BoundAssumption
<1> HIDE DEF new
<1>6. Cardinality(UnderWay') <= MaxPushes
  <2>1. Cardinality(UnderWay') \in Nat
    BY <1>1, <1>4, FS_CardinalityType
  <2> QED BY <1>1, <1>2, <1>3, <1>4, <1>5, <2>1
<1> QED BY <1>1, <1>4, <1>6 DEF Bounded

\* No step but sending adds a push.
LEMMA FewerBounded ==
  ASSUME Bounded, \A d \in Device : DOMAIN pushes'[d] \subseteq DOMAIN pushes[d]
  PROVE  Bounded'
<1>1. UnderWay' \subseteq UnderWay
  BY DEF UnderWay
<1>2. /\ IsFiniteSet(UnderWay') /\ Cardinality(UnderWay') <= Cardinality(UnderWay)
      /\ Cardinality(UnderWay) \in Nat /\ Cardinality(UnderWay') \in Nat
  BY <1>1, FS_Subset, FS_CardinalityType DEF Bounded
<1>3. MaxPushes \in Nat
  BY BoundAssumption
<1> QED BY <1>2, <1>3 DEF Bounded

\* A sync that sends waits, with nothing merged.
LEMMA SendingWaits ==
  ASSUME IInv, Waits, NEW d \in Device, NEW s \in Marking(ledger),
         NEW caller \in {"gate", "claim", "commit"}, Sending(d, s, caller),
         pc' = [pc EXCEPT ![d] = "send"], work'[d] = None,
         \A x \in Device \ {d} : work'[x] = work[x]
  PROVE  Waits'
<1>1. /\ pushes \in [Device -> Seq(PushOf(ledger))] /\ pc \in [Device -> Steps]
  BY DEF IInv, Marks, Types
<1>2. /\ \A x \in Device \ {d} : pushes'[x] = pushes[x] /\ pc'[x] = pc[x]
      /\ pc'[d] = "send"
  BY <1>1, SendingElements
<1>3. /\ DOMAIN pushes'[d] = DOMAIN pushes[d] \cup {Len(pushes[d]) + 1}
      /\ \A i \in DOMAIN pushes[d] : pushes'[d][i] = pushes[d][i]
      /\ pushes'[d][Len(pushes[d]) + 1].for = caller
      /\ pushes'[d][Len(pushes[d]) + 1].at = "blob"
  BY <1>1, SendingElements
<1> QED BY <1>2, <1>3 DEF Waits, WaitsAt

\* A push is done with: a sync that waits does not wait for it.
LEMMA RemovalWaits ==
  ASSUME IInv, Waits, NEW d \in Device, NEW i \in DOMAIN pushes[d],
         work' = work,
         \E s \in Seq(PushOf(ledger)) :
           /\ DOMAIN s = DOMAIN pushes[d]
           /\ \A j \in DOMAIN s : s[j].for = pushes[d][j].for /\ s[j].at = pushes[d][j].at
           /\ pushes' = [pushes EXCEPT ![d] = RemoveAt(s, i)],
         \E step \in Steps \ {"send"} :
           pc' = [pc EXCEPT ![d] = IF pushes[d][i].for = "edit" THEN @ ELSE step]
  PROVE  Waits' /\ (Bounded => Bounded')
<1> PICK s \in Seq(PushOf(ledger)) :
      /\ DOMAIN s = DOMAIN pushes[d]
      /\ \A j \in DOMAIN s : s[j].for = pushes[d][j].for /\ s[j].at = pushes[d][j].at
      /\ pushes' = [pushes EXCEPT ![d] = RemoveAt(s, i)]
  OBVIOUS
<1> DEFINE r == RemoveAt(s, i)
           to(j) == IF j < i THEN j ELSE j - 1
           from(j) == IF j < i THEN j ELSE j + 1
<1>1. /\ pushes \in [Device -> Seq(PushOf(ledger))] /\ pc \in [Device -> Steps]
  BY DEF IInv, Marks, Types
<1>2. /\ DOMAIN s = 1..Len(s) /\ Len(s) \in Nat /\ i \in 1..Len(s)
      /\ DOMAIN r = 1..(Len(s) - 1)
      /\ \A j \in DOMAIN r : r[j] = IF j < i THEN s[j] ELSE s[j + 1]
  BY RemoveAtElements
<1>3. pushes'[d] = r /\ \A x \in Device \ {d} : pushes'[x] = pushes[x] /\ pc'[x] = pc[x]
  BY <1>1
<1>4. ASSUME NEW j \in DOMAIN s \ {i}
      PROVE  to(j) \in DOMAIN r /\ r[to(j)] = s[j]
  <2> HIDE DEF r
  <2>1. j \in 1..Len(s) /\ j # i
    BY <1>2
  <2>2. CASE j < i
    BY <1>2, <2>1, <2>2
  <2>3. CASE j > i
    <3>1. j - 1 \in DOMAIN r /\ ~(j - 1 < i) /\ (j - 1) + 1 = j
      BY <1>2, <2>1, <2>3
    <3> QED BY <1>2, <2>1, <2>3, <3>1
  <2> QED BY <1>2, <2>1, <2>2, <2>3
<1>5. DOMAIN r \subseteq DOMAIN s /\ \A j \in DOMAIN r : from(j) \in DOMAIN s /\ r[j] = s[from(j)]
  BY <1>2
<1>6. \A x \in Device : DOMAIN pushes'[x] \subseteq DOMAIN pushes[x]
  BY <1>3, <1>5
<1>7. work[d] # None => pc'[d] \in {"merge", "write"}
  <2>1. work[d] # None => pushes[d][i].for = "edit"
    BY DEF Waits, WaitsAt, IInv, Sends
  <2> QED BY <1>1, <2>1 DEF Waits, WaitsAt
<1> HIDE DEF r, to, from
<1>8. pc'[d] = "send" => \E j \in DOMAIN r : r[j].for # "edit"
  <2> SUFFICES ASSUME pc'[d] = "send" PROVE \E j \in DOMAIN r : r[j].for # "edit"
    OBVIOUS
  <2>1. pushes[d][i].for = "edit" /\ pc[d] = "send"
    BY <1>1
  <2>2. PICK j \in DOMAIN pushes[d] : pushes[d][j].for # "edit"
    BY <2>1 DEF Waits, WaitsAt
  <2> QED BY <1>4, <2>1, <2>2
<1>9. \A j \in DOMAIN r : r[j].at = "cookie" => r[j].for = "edit"
  BY <1>5 DEF Waits, WaitsAt
<1>10. Waits'
  BY <1>3, <1>7, <1>8, <1>9 DEF Waits, WaitsAt
<1> QED BY <1>6, <1>10, FewerBounded

\* Steps that change no push.
LEMMA StillWaits ==
  ASSUME IInv, Waits, Bounded, pushes' = pushes, NEW d \in Device,
         \A x \in Device \ {d} : work'[x] = work[x] /\ pc'[x] = pc[x],
         work'[d] # None => pc'[d] \in {"merge", "write"},
         pc'[d] = "send" => pc[d] = "send"
  PROVE  Waits' /\ Bounded'
BY DEF Waits, WaitsAt, Bounded, UnderWay

WInv == IInv /\ Flags /\ Current /\ Scalars /\ Waits /\ Bounded

LEMMA ScalarsKept ==
  ASSUME WInv, [Next]_vars
  PROVE  Scalars'
<1>1. Staging = [Entry -> Stage] /\ local \in [Device -> Marking(ledger)]
  BY DEF WInv, IInv, Marks, Staging
<1>2. Nat \subseteq Int /\ {MaxEdits, MaxFaults} \subseteq Nat
  BY BoundAssumption
<1>3. ASSUME NEW f, Fault(f) PROVE faults' \in 0..MaxFaults
  BY <1>2, <1>3 DEF Fault, WInv, Scalars
<1>4. CASE OtherClient
  <2>1. UNCHANGED <<cookie, edits>> /\ rcookie' \in {rcookie, Stale}
    BY <1>4 DEF OtherClient, browser
  <2>2. PICK s \in Foreign : /\ blob' = [of |-> s, by |-> None]
                             /\ ledger' = ledger \cup {e \in Entry : s[e] = "committed"}
    BY <1>4 DEF OtherClient
  <2>3. blob' \in [of : Staging, by : Device \cup {None}]
    BY <2>2, ForeignAssumption
  <2>4. faults' \in 0..MaxFaults
    BY <1>3, <1>4 DEF OtherClient
  <2> QED BY <2>1, <2>2, <2>3, <2>4 DEF WInv, Scalars
<1>5. ASSUME NEW d \in Device, NEW e \in Entry, NEW s \in Stage, BeginEdit(d, e, s)
      PROVE  Scalars'
  <2>1. UNCHANGED <<cookie, blob, rcookie, ledger, faults>> /\ edits' \in 0..MaxEdits
    BY <1>2, <1>5 DEF BeginEdit, remote, WInv, Scalars
  <2> QED BY <2>1 DEF WInv, Scalars
<1>6. ASSUME NEW d \in Device, NEW i \in DOMAIN pushes[d],
             Arrive(d, i) \/ Fail(d, i) \/ ArriveCookie(d, i)
      PROVE  Scalars'
  <2>1. pushes[d][i].of \in Staging
    <3>1. pushes[d][i].of \in Marking(ledger)
      BY PushType DEF WInv, IInv, Marks
    <3> QED BY <3>1 DEF Marking
  <2>2. blob' = blob \/ blob' \in [of : Staging, by : Device \cup {None}]
    BY <1>6, <2>1 DEF Arrive, Fail, ArriveCookie
  <2>3. cookie' \in [Device -> {"none", "fresh", "expired"}]
    BY <1>6 DEF Arrive, Fail, ArriveCookie, Touched, WInv, Scalars
  <2>4. UNCHANGED <<ledger, edits>> /\ rcookie' \in Device \cup {None, Stale}
    BY <1>6 DEF Arrive, Fail, ArriveCookie, WInv, Scalars
  <2>5. faults' = faults \/ Fault("push")
    BY <1>6 DEF Arrive, Fail, ArriveCookie
  <2> QED BY <1>3, <2>2, <2>3, <2>4, <2>5 DEF WInv, Scalars
<1>7. ASSUME NEW d \in Device,
             \/ EndEdit(d) \/ Fire(d) \/ GateExpired(d) \/ GateMatches(d)
             \/ GateUnclaimed(d) \/ Reauthenticate(d) \/ Pull(d) \/ PullFails(d)
             \/ MergeEntries(d) \/ WriteMerged(d) \/ Claim(d) \/ Publish(d)
             \/ Expire(d) \/ Monitor(d) \/ Close(d)
      PROVE  Scalars'
  <2>1. UNCHANGED <<blob, ledger, edits>>
    BY <1>7 DEF EndEdit, Fire, GateExpired, GateMatches, GateUnclaimed, Reauthenticate,
                Pull, PullFails, MergeEntries, WriteMerged, Claim, Publish, Expire,
                Monitor, Close, remote, history
  <2>2. cookie' \in [Device -> {"none", "fresh", "expired"}]
    BY <1>7 DEF EndEdit, Fire, GateExpired, GateMatches, GateUnclaimed, Reauthenticate,
                Pull, PullFails, MergeEntries, WriteMerged, Claim, Publish, Expire,
                Monitor, Close, browser, Touched, WInv, Scalars
  <2>3. rcookie' \in Device \cup {None, Stale}
    BY <1>7 DEF EndEdit, Fire, GateExpired, GateMatches, GateUnclaimed, Reauthenticate,
                Pull, PullFails, MergeEntries, WriteMerged, Claim, Publish, Expire,
                Monitor, Close, remote, WInv, Scalars
  <2>4. faults' = faults \/ \E f \in AllFaults : Fault(f)
    BY <1>7 DEF EndEdit, Fire, GateExpired, GateMatches, GateUnclaimed, Reauthenticate,
                Pull, PullFails, MergeEntries, WriteMerged, Claim, Publish, Expire,
                Monitor, Close, history, AllFaults
  <2> QED BY <1>3, <2>1, <2>2, <2>3, <2>4 DEF WInv, Scalars
<1>8. ASSUME NEW d \in Device, Commit(d)
      PROVE  Scalars'
  <2>1. UNCHANGED <<cookie, blob, rcookie, edits, faults>>
        /\ \E S \in SUBSET Entry : ledger' = ledger \cup S
    BY <1>8 DEF Commit, remote
  <2> QED BY <2>1 DEF WInv, Scalars
<1>9. CASE UNCHANGED vars
  BY <1>9 DEF vars, browser, remote, history, WInv, Scalars
<1> QED BY <1>4, <1>5, <1>6, <1>7, <1>8, <1>9 DEF Next

LEMMA WaitsKept ==
  ASSUME WInv, [Next]_vars
  PROVE  Waits' /\ Bounded'
<1>1. /\ pushes \in [Device -> Seq(PushOf(ledger))] /\ pc \in [Device -> Steps]
      /\ work \in [Device -> Marking(ledger) \cup {None}]
      /\ local \in [Device -> Marking(ledger)]
      /\ IInv /\ Waits /\ Bounded
  BY DEF WInv, IInv, Marks, Types
<1>2. CASE OtherClient \/ UNCHANGED vars
  <2>1. UNCHANGED <<pushes, pc, work>>
    BY <1>2 DEF OtherClient, browser, syncing, vars
  <2> QED BY <1>1, <2>1 DEF Waits, WaitsAt, Bounded, UnderWay
<1>3. ASSUME NEW d \in Device,
             \/ \E e \in Entry, s \in Stage : BeginEdit(d, e, s)
             \/ EndEdit(d) \/ Expire(d) \/ Monitor(d) \/ GateExpired(d)
      PROVE  Waits' /\ Bounded'
  <2>1. UNCHANGED <<pushes, pc, work>>
    BY <1>3 DEF BeginEdit, EndEdit, Expire, Monitor, GateExpired, syncing
  <2> QED BY <1>1, <2>1 DEF Waits, WaitsAt, Bounded, UnderWay
<1>4. ASSUME NEW d \in Device,
             \/ GateUnclaimed(d) \/ Reauthenticate(d) \/ PullFails(d) \/ Claim(d)
             \/ Commit(d)
      PROVE  Waits' /\ Bounded'
  <2>1. UNCHANGED <<pushes, work>> /\ pc[d] \notin {"merge", "write", "send"}
        /\ \E step \in Steps \ {"send"} : pc' = [pc EXCEPT ![d] = step]
    BY <1>4 DEF GateUnclaimed, Reauthenticate, PullFails, Claim, Commit, browser,
                Goto, Steps
  <2>2. /\ pc'[d] # "send" /\ work'[d] = None
        /\ \A x \in Device \ {d} : work'[x] = work[x] /\ pc'[x] = pc[x]
    BY <1>1, <2>1 DEF Waits, WaitsAt
  <2> QED BY <1>1, <2>1, <2>2, StillWaits
<1>5. ASSUME NEW d \in Device, MergeEntries(d) \/ (Pull(d) /\ blob # None)
      PROVE  Waits' /\ Bounded'
  <2>1. /\ pushes' = pushes /\ \E s : work' = [work EXCEPT ![d] = s]
        /\ \E step \in {"merge", "write"} : pc' = [pc EXCEPT ![d] = step]
    BY <1>5 DEF MergeEntries, Pull, browser, Goto
  <2>2. /\ pc'[d] \in {"merge", "write"}
        /\ \A x \in Device \ {d} : work'[x] = work[x] /\ pc'[x] = pc[x]
    BY <1>1, <2>1
  <2> QED BY <1>1, <2>1, <2>2, StillWaits
<1>6. ASSUME NEW d \in Device, Fire(d)
      PROVE  Waits' /\ Bounded'
  <2>1. Sending(d, local[d], "edit") /\ UNCHANGED <<pc, work>>
    BY <1>6 DEF Fire, syncing
  <2>2. local[d] \in Marking(ledger) /\ "edit" \in {"edit", "gate", "claim", "commit"}
    BY <1>1
  <2>3. Bounded'
    BY <1>1, <2>1, <2>2, SendingBounded
  <2>4. /\ \A x \in Device \ {d} : pushes'[x] = pushes[x]
        /\ DOMAIN pushes'[d] = DOMAIN pushes[d] \cup {Len(pushes[d]) + 1}
        /\ \A i \in DOMAIN pushes[d] : pushes'[d][i] = pushes[d][i]
        /\ pushes'[d][Len(pushes[d]) + 1].for = "edit"
        /\ pushes'[d][Len(pushes[d]) + 1].at = "blob"
    BY <1>1, <2>1, <2>2, SendingElements
  <2>5. WaitsAt(d)'
    BY <1>1, <2>1, <2>4 DEF Waits, WaitsAt
  <2> QED BY <1>1, <2>1, <2>3, <2>4, <2>5, OthersWait
<1>7. ASSUME NEW d \in Device, NEW s \in Marking(ledger),
             NEW caller \in {"gate", "claim", "commit"}, Sending(d, s, caller),
             Goto(d, "send"), work'[d] = None,
             \A x \in Device \ {d} : work'[x] = work[x]
      PROVE  Waits' /\ Bounded'
  <2>1. Bounded'
    BY <1>1, <1>7, SendingBounded
  <2>2. Waits'
    BY <1>1, <1>7, SendingWaits DEF Goto
  <2> QED BY <2>1, <2>2
<1>8. ASSUME NEW d \in Device, GateMatches(d)
      PROVE  Waits' /\ Bounded'
  <2>1. work' = work /\ work[d] = None
    BY <1>1, <1>8 DEF GateMatches, Waits, WaitsAt
  <2> QED BY <1>1, <1>7, <1>8, <2>1 DEF GateMatches
<1>9. ASSUME NEW d \in Device, Pull(d), blob = None
      PROVE  Waits' /\ Bounded'
  <2>1. work' = work /\ work[d] = None
    BY <1>1, <1>9 DEF Pull, Waits, WaitsAt
  <2> QED BY <1>1, <1>7, <1>9, <2>1 DEF Pull
<1>10. ASSUME NEW d \in Device, WriteMerged(d)
       PROVE  Waits' /\ Bounded'
  <2>1. work' = [work EXCEPT ![d] = None] /\ work[d] \in Marking(ledger)
    BY <1>1, <1>10 DEF WriteMerged, IInv, Marks
  <2> QED BY <1>1, <1>7, <1>10, <2>1 DEF WriteMerged
<1>11. ASSUME NEW d \in Device, Publish(d)
       PROVE  Waits' /\ Bounded'
  <2>1. work' = work /\ work[d] = None /\ pc[d] = "publish"
    BY <1>1, <1>11 DEF Publish, Waits, WaitsAt
  <2>2. CASE Sending(d, local[d], "commit") /\ Goto(d, "send")
    BY <1>1, <1>7, <2>1, <2>2
  <2>3. CASE Goto(d, "idle") /\ pushes' = pushes
    <3>1. pc'[d] = "idle" /\ \A x \in Device \ {d} : pc'[x] = pc[x]
      BY <1>1, <2>3 DEF Goto
    <3> QED BY <1>1, <2>1, <2>3, <3>1, StillWaits
  <2> QED BY <1>11, <2>2, <2>3 DEF Publish
<1>12. ASSUME NEW d \in Device, Close(d)
       PROVE  Waits' /\ Bounded'
  <2>1. /\ pushes' = [pushes EXCEPT ![d] = <<>>] /\ pc' = [pc EXCEPT ![d] = "idle"]
        /\ work' = [work EXCEPT ![d] = None]
    BY <1>12 DEF Close, Goto
  <2>2. /\ pushes'[d] = <<>> /\ pc'[d] = "idle" /\ work'[d] = None
        /\ \A x \in Device \ {d} : /\ pushes'[x] = pushes[x] /\ pc'[x] = pc[x]
                                   /\ work'[x] = work[x]
    BY <1>1, <2>1
  <2>3. DOMAIN pushes'[d] = {}
    BY <2>2
  <2>4. Bounded'
    BY <1>1, <2>2, <2>3, FewerBounded
  <2>5. WaitsAt(d)'
    BY <2>2, <2>3 DEF WaitsAt
  <2>6. Waits'
    BY <1>1, <2>2, <2>5, OthersWait
  <2> QED BY <2>4, <2>6
<1>13. ASSUME NEW d \in Device, NEW i \in DOMAIN pushes[d],
              \/ Fail(d, i) \/ ArriveCookie(d, i)
              \/ Arrive(d, i) /\ pushes[d][i].for # "edit"
       PROVE  Waits' /\ Bounded'
  <2>1. pushes[d] \in Seq(PushOf(ledger)) /\ work' = work
    BY <1>1, <1>13 DEF Fail, ArriveCookie, Arrive, syncing
  <2>2. \E s \in Seq(PushOf(ledger)) :
          /\ DOMAIN s = DOMAIN pushes[d]
          /\ \A j \in DOMAIN s : s[j].for = pushes[d][j].for /\ s[j].at = pushes[d][j].at
          /\ pushes' = [pushes EXCEPT ![d] = RemoveAt(s, i)]
    <3>1. CASE pushes' = [pushes EXCEPT ![d] = RemoveAt(Overtaken(@, i), i)]
      BY <2>1, <3>1, OvertakenType, OvertakenElements, ZenonT(30)
    <3>2. CASE pushes' = [pushes EXCEPT ![d] = RemoveAt(@, i)]
      BY <2>1, <3>2
    <3> QED BY <1>13, <3>1, <3>2 DEF Fail, ArriveCookie, Arrive
  <2>3. \E step \in Steps \ {"send"} :
          pc' = [pc EXCEPT ![d] = IF pushes[d][i].for = "edit" THEN @ ELSE step]
    <3>1. CASE Fail(d, i)
      BY <3>1 DEF Fail, Steps
    <3>2. CASE ArriveCookie(d, i)
      <4>1. pc' = pc /\ pushes[d][i].for = "edit"
        BY <1>1, <3>2 DEF ArriveCookie, syncing, Waits, WaitsAt
      <4>2. pc' = [pc EXCEPT ![d] = IF pushes[d][i].for = "edit" THEN @ ELSE "idle"]
        BY <1>1, <4>1
      <4> QED BY <4>2 DEF Steps
    <3>3. CASE Arrive(d, i) /\ pushes[d][i].for # "edit"
      <4>1. pc' = [pc EXCEPT ![d] = CASE pushes[d][i].for = "edit"  -> @
                                      [] pushes[d][i].for = "claim" -> "claim"
                                      [] OTHER           -> "idle"]
        BY <3>3 DEF Arrive
      <4>2. PICK step \in {"claim", "idle"} : pc' = [pc EXCEPT ![d] = step]
        BY <3>3, <4>1
      <4>3. pc' = [pc EXCEPT ![d] = IF pushes[d][i].for = "edit" THEN @ ELSE step]
        BY <3>3, <4>2
      <4> QED BY <4>3 DEF Steps
    <3> QED BY <1>13, <3>1, <3>2, <3>3
  <2> QED BY <1>1, <2>1, <2>2, <2>3, RemovalWaits
<1>14. ASSUME NEW d \in Device, NEW i \in DOMAIN pushes[d],
              Arrive(d, i), pushes[d][i].for = "edit"
       PROVE  Waits' /\ Bounded'
  <2> DEFINE t == Overtaken(pushes[d], i)
             r == [t EXCEPT ![i] = [t[i] EXCEPT !.at = "cookie"]]
  <2>1. /\ pushes' = [pushes EXCEPT ![d] = r] /\ work' = work /\ pc' = pc
    BY <1>1, <1>14 DEF Arrive
  <2>2. /\ t \in Seq(PushOf(ledger)) /\ DOMAIN t = DOMAIN pushes[d]
        /\ \A j \in DOMAIN t : t[j].for = pushes[d][j].for /\ t[j].at = pushes[d][j].at
    <3>1. pushes[d] \in Seq(PushOf(ledger))
      BY <1>1
    <3> QED BY <3>1, OvertakenType, OvertakenElements
  <2>3. t[i] \in PushOf(ledger)
    BY <2>2
  <2> HIDE DEF t
  <2>4. /\ DOMAIN r = DOMAIN t
        /\ \A j \in DOMAIN t : /\ r[j].for = t[j].for
                               /\ j # i => r[j].at = t[j].at
    BY <2>2, <2>3 DEF PushOf
  <2> HIDE DEF r
  <2>5. pushes'[d] = r /\ \A x \in Device \ {d} : pushes'[x] = pushes[x]
    BY <1>1, <2>1
  <2>6. Bounded'
    BY <1>1, <2>2, <2>4, <2>5, FewerBounded
  <2>7. /\ pc[d] = "send" => \E j \in DOMAIN r : r[j].for # "edit"
        /\ \A j \in DOMAIN r : r[j].at = "cookie" => r[j].for = "edit"
    <3>1. WaitsAt(d)
      BY <1>1 DEF Waits
    <3>2. \A j \in DOMAIN pushes[d] : r[j].for = pushes[d][j].for
      BY <2>2, <2>4
    <3>3. \A j \in DOMAIN r : r[j].at = "cookie" => j = i \/ pushes[d][j].at = "cookie"
      BY <2>2, <2>4
    <3> QED BY <1>14, <2>2, <2>4, <3>1, <3>2, <3>3 DEF WaitsAt
  <2>8. WaitsAt(d)'
    BY <1>1, <2>1, <2>5, <2>7 DEF Waits, WaitsAt
  <2>9. Waits'
    BY <1>1, <2>1, <2>5, <2>8, OthersWait
  <2> QED BY <2>6, <2>9
<1> QED BY <1>2, <1>3, <1>4, <1>5, <1>6, <1>8, <1>9, <1>10, <1>11, <1>12, <1>13, <1>14
        DEF Next

\* The state of the browsers, of the pushes under way and of the remote is well
\* typed: a sync holds a staging exactly while it merges or writes, waits
\* exactly while its push is under way, and no more pushes are under way than
\* the bound allows.
THEOREM TypeCorrectness == Spec => []TypeOK
<1>1. Init => WInv
  <2> SUFFICES ASSUME Init PROVE WInv
    OBVIOUS
  <2>1. Flags /\ Waits /\ Current
    BY DEF Init, Flags, Waits, WaitsAt, Current, CurrentAt, Brought
  <2>2. Scalars
    BY BoundAssumption DEF Init, Scalars
  <2>3. UnderWay = {}
    BY DEF Init, UnderWay
  <2>4. Bounded
    BY <2>3, FS_EmptySet, BoundAssumption DEF Bounded
  <2> QED BY <2>1, <2>2, <2>4, Initially DEF WInv
<1>2. WInv => TypeOK
  <2> SUFFICES ASSUME WInv PROVE TypeOK
    OBVIOUS
  <2> USE DEF WInv, IInv
  <2>1. /\ local \in [Device -> Staging] /\ edit \in [Device -> Staging \cup {None}]
        /\ had \in [Device -> SUBSET Entry]
    BY DEF Marks, Marking, Types
  <2>2. \A d \in Device : \A i \in DOMAIN pushes[d] : pushes[d][i] \in Push
    <3>1. pushes \in [Device -> Seq(PushOf(ledger))]
      BY DEF Marks
    <3> QED BY <3>1, PushType DEF PushOf, Push, Marking
  <2>3. \A d \in Device :
          /\ pc[d] \in Steps
          /\ (pc[d] \in {"merge", "write"}) = (work[d] # None)
          /\ (pc[d] = "send") = (\E i \in DOMAIN pushes[d] : pushes[d][i].for # "edit")
    <3> TAKE d \in Device
    <3>1. pc[d] \in Steps
      BY DEF Types
    <3>2. (pc[d] \in {"merge", "write"}) <=> (work[d] # None)
      BY DEF Marks, Waits, WaitsAt
    <3>3. (pc[d] = "send") <=> (\E i \in DOMAIN pushes[d] : pushes[d][i].for # "edit")
      BY DEF Waits, WaitsAt, Sends
    <3>4. (pc[d] \in {"merge", "write"}) = (work[d] # None)
      BY <3>2
    <3>5. (pc[d] = "send") = (\E i \in DOMAIN pushes[d] : pushes[d][i].for # "edit")
      BY <3>3, Zenon
    <3> QED BY <3>1, <3>4, <3>5
  <2> QED BY <2>1, <2>2, <2>3 DEF TypeOK, Flags, Scalars, Bounded
<1>3. WInv /\ [Next]_vars => WInv'
  <2> SUFFICES ASSUME WInv, [Next]_vars PROVE WInv'
    OBVIOUS
  <2>1. IInv' /\ Scalars' /\ Waits' /\ Bounded'
    BY Inductive, ScalarsKept, WaitsKept DEF WInv
  <2>2. Flags' /\ Current'
    BY CurrentInductive DEF WInv
  <2> QED BY <2>1, <2>2 DEF WInv
<1> QED BY <1>1, <1>2, <1>3, PTL DEF Spec
=============================================================================
