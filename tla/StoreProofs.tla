---------------------------- MODULE StoreProofs ----------------------------
(***************************************************************************)
(* Theorems about StoreClient, for all sets of clients, keys and records:  *)
(* no list ever holds a record twice, whoever writes; and with one writing *)
(* process the command-by-command calls implement the atomic ones of       *)
(* AtomicStore.  The second rests on Fresh: what an append has read is     *)
(* still what the server holds when its SET is due.                        *)
(***************************************************************************)
EXTENDS StoreClient, TLAPS

Distinct(s) == \A i, j \in 1 .. Len(s) : s[i] = s[j] => i = j

\* A list with a record that was not in it still holds every record once.
LEMMA AppendKeepsDistinct ==
    ASSUME NEW S, NEW s \in Seq(S), NEW r \in S, Distinct(s), r \notin Range(s)
    PROVE  Distinct(Append(s, r))
<1>1. \A i \in 1 .. Len(s) : s[i] # r
  BY DEF Range
<1> QED
  BY <1>1 DEF Distinct

\* The old list is a prefix of the list with the record.
LEMMA AppendExtends ==
    ASSUME NEW S, NEW s \in Seq(S), NEW r \in S
    PROVE  /\ Len(s) < Len(Append(s, r))
           /\ SubSeq(Append(s, r), 1, Len(s)) = s
OBVIOUS

-----------------------------------------------------------------------------
\* The program starts in a well-typed state.
LEMMA TypeInit == Init => TypeOK
BY DEF Init, TypeOK, PC, RetVal

\* So does the return of a call, and the exit of an append before its SET.
LEMMA ReturnType ==
    ASSUME TypeOK, NEW c \in Client, NEW value \in RetVal,
           Return(c, value) \/ LeaveAppend(c, value)
    PROVE  /\ pc' \in [Client -> PC]
           /\ orig' \in [Client -> Seq(Rec)]
           /\ ret' \in [Client -> RetVal]
<1>1. <<>> \in Seq(Rec)
  OBVIOUS
<1> QED
  BY <1>1 DEF TypeOK, PC, Return, LeaveAppend

\* A step keeps every variable well typed.
LEMMA TypeStep == TypeOK /\ [Next]_vars => TypeOK'
<1> SUFFICES ASSUME TypeOK, [Next]_vars PROVE TypeOK'
  OBVIOUS
<1> USE DEF TypeOK
<1>1. CASE ServerDies
  BY <1>1 DEF ServerDies
<1>2. ASSUME NEW c \in Client, Invoke(c) PROVE TypeOK'
  BY <1>2 DEF Invoke, Allowed, PC
<1>3. ASSUME NEW c \in Client, Connect(c) PROVE TypeOK'
  BY <1>3, ReturnType DEF Connect, PC, RetVal
<1>4. ASSUME NEW c \in Client, AppendGet(c) PROVE TypeOK'
  BY <1>4, ReturnType DEF AppendGet, Call, PC, RetVal
<1>5. ASSUME NEW c \in Client, AppendSet(c) PROVE TypeOK'
  BY <1>5, ReturnType DEF AppendSet, Call, RetVal
<1>6. ASSUME NEW c \in Client, SaveSet(c) PROVE TypeOK'
  BY <1>6, ReturnType DEF SaveSet, Call, RetVal
<1>7. ASSUME NEW c \in Client, ReadGet(c) PROVE TypeOK'
  BY <1>7, ReturnType DEF ReadGet, Call, RetVal
<1>8. ASSUME NEW c \in Client, CommandFails(c) PROVE TypeOK'
  BY <1>8, ReturnType DEF CommandFails, RetVal
<1>9. CASE UNCHANGED vars
  BY <1>9 DEF vars
<1> QED
  BY <1>1, <1>2, <1>3, <1>4, <1>5, <1>6, <1>7, <1>8, <1>9 DEF Next, Step

\* Every variable keeps its type.
THEOREM TypeCorrect == Spec => []TypeOK
BY TypeInit, TypeStep, PTL DEF Spec

-----------------------------------------------------------------------------
\* An append that is about to SET has read a list without its record.
ReadyToSet ==
    \A c \in Client : pc[c] = "SET" /\ call[c].op = "append" =>
        call[c].rec \notin Range(orig[c]) /\ Distinct(orig[c])

AllDistinct == \A k \in Key : Distinct(store[k])

\* The inductive step for the absence of duplicates.
LEMMA DistinctStep ==
    TypeOK /\ ReadyToSet /\ AllDistinct /\ [Next]_vars => ReadyToSet' /\ AllDistinct'
<1> SUFFICES ASSUME TypeOK, ReadyToSet, AllDistinct, [Next]_vars
             PROVE  ReadyToSet' /\ AllDistinct'
  OBVIOUS
<1> USE DEF TypeOK, ReadyToSet, AllDistinct, Return
<1>1. CASE ServerDies
  BY <1>1 DEF ServerDies
<1>2. ASSUME NEW c \in Client, Invoke(c) PROVE ReadyToSet' /\ AllDistinct'
  BY <1>2 DEF Invoke
<1>3. ASSUME NEW c \in Client, Connect(c) PROVE ReadyToSet' /\ AllDistinct'
  BY <1>3 DEF Connect
<1>4. ASSUME NEW c \in Client, AppendGet(c) PROVE ReadyToSet' /\ AllDistinct'
  BY <1>4 DEF AppendGet, LeaveAppend, Call
<1>5. ASSUME NEW c \in Client, AppendSet(c) PROVE ReadyToSet' /\ AllDistinct'
  <2>1. Distinct(Append(orig[c], call[c].rec))
    BY <1>5, AppendKeepsDistinct DEF AppendSet, Call
  <2> QED
    BY <1>5, <2>1 DEF AppendSet, Call
<1>6. ASSUME NEW c \in Client, SaveSet(c) PROVE ReadyToSet' /\ AllDistinct'
  <2>1. Distinct(<<call[c].rec>>)
    BY DEF Distinct
  <2> QED
    BY <1>6, <2>1 DEF SaveSet, Call
<1>7. ASSUME NEW c \in Client, ReadGet(c) PROVE ReadyToSet' /\ AllDistinct'
  BY <1>7 DEF ReadGet
<1>8. ASSUME NEW c \in Client, CommandFails(c) PROVE ReadyToSet' /\ AllDistinct'
  BY <1>8 DEF CommandFails, LeaveAppend
<1>9. CASE UNCHANGED vars
  BY <1>9 DEF vars
<1> QED
  BY <1>1, <1>2, <1>3, <1>4, <1>5, <1>6, <1>7, <1>8, <1>9 DEF Next, Step

\* No list holds a record twice, for any number of writing processes.
THEOREM ListsHoldEachRecordOnce == Spec => []NoDuplicates
<1>1. Init => ReadyToSet /\ AllDistinct
  BY DEF Init, ReadyToSet, AllDistinct, Distinct
<1>2. AllDistinct => NoDuplicates
  BY DEF AllDistinct, Distinct, NoDuplicates
<1> QED
  BY <1>1, <1>2, TypeInit, TypeStep, DistinctStep, PTL DEF Spec

-----------------------------------------------------------------------------
\* Of the processes, at most one saves and appends: the master while it loads.
OneWriter == \A c, d \in Writer : c = d

InCall(c) == pc[c] \in {"connect", "GET", "SET"}

\* Only writers are inside writing calls, only writing calls come to a SET, and
\* nothing has been read before the GET of a reading call.
Roles ==
    \A c \in Client :
        /\ InCall(c) /\ call[c].op \in {"save", "append"} => c \in Writer
        /\ pc[c] = "SET" => call[c].op \in {"save", "append"}
        /\ InCall(c) => seen[c] = <<>>

\* What an append has read is still there when its SET is due.
Fresh ==
    \A c \in Client : pc[c] = "SET" /\ call[c].op = "append" =>
        orig[c] = store[call[c].key]

\* The inductive step for the two.
LEMMA FreshStep ==
    ASSUME OneWriter
    PROVE  TypeOK /\ Roles /\ Fresh /\ [Next]_vars => Roles' /\ Fresh'
<1> SUFFICES ASSUME TypeOK, Roles, Fresh, [Next]_vars PROVE Roles' /\ Fresh'
  OBVIOUS
<1> USE DEF TypeOK, Roles, Fresh, InCall, Return
<1>1. CASE ServerDies
  BY <1>1 DEF ServerDies
<1>2. ASSUME NEW c \in Client, Invoke(c) PROVE Roles' /\ Fresh'
  BY <1>2 DEF Invoke, Allowed
<1>3. ASSUME NEW c \in Client, Connect(c) PROVE Roles' /\ Fresh'
  BY <1>3 DEF Connect, Call, Op
<1>4. ASSUME NEW c \in Client, AppendGet(c) PROVE Roles' /\ Fresh'
  BY <1>4 DEF AppendGet, LeaveAppend
<1>5. ASSUME NEW c \in Client, AppendSet(c) PROVE Roles' /\ Fresh'
  <2>1. \A d \in Client \ {c} : pc[d] # "SET"
    BY <1>5 DEF AppendSet, OneWriter
  <2> QED
    BY <1>5, <2>1 DEF AppendSet
<1>6. ASSUME NEW c \in Client, SaveSet(c) PROVE Roles' /\ Fresh'
  <2>1. \A d \in Client \ {c} : pc[d] # "SET"
    BY <1>6 DEF SaveSet, OneWriter
  <2> QED
    BY <1>6, <2>1 DEF SaveSet
<1>7. ASSUME NEW c \in Client, ReadGet(c) PROVE Roles' /\ Fresh'
  BY <1>7 DEF ReadGet
<1>8. ASSUME NEW c \in Client, CommandFails(c) PROVE Roles' /\ Fresh'
  BY <1>8 DEF CommandFails, LeaveAppend
<1>9. CASE UNCHANGED vars
  BY <1>9 DEF vars
<1> QED
  BY <1>1, <1>2, <1>3, <1>4, <1>5, <1>6, <1>7, <1>8, <1>9 DEF Next, Step

\* The appends of the one writer never take anything out of a list, nor do they
\* change the order of what a reader has seen.
THEOREM OneWriterAppends ==
    ASSUME OneWriter
    PROVE  Spec => AppendOnly
<1>1. Init => Roles /\ Fresh
  BY DEF Init, Roles, Fresh, InCall
<1> DEFINE Grows == \A k \in Key :
          \/ store'[k] = store[k]
          \/ \E c \in Client : SaveSet(c) /\ call[c].key = k
          \/ /\ Len(store[k]) < Len(store'[k])
             /\ SubSeq(store'[k], 1, Len(store[k])) = store[k]
<1>2. TypeOK /\ Fresh /\ [Next]_vars => [Grows]_vars
  <2> SUFFICES ASSUME TypeOK, Fresh, Next, NEW k \in Key
               PROVE  \/ store'[k] = store[k]
                      \/ \E c \in Client : SaveSet(c) /\ call[c].key = k
                      \/ /\ Len(store[k]) < Len(store'[k])
                         /\ SubSeq(store'[k], 1, Len(store[k])) = store[k]
    OBVIOUS
  <2>1. CASE store' = store
    BY <2>1
  <2>2. ASSUME NEW c \in Client, SaveSet(c)
        PROVE  store'[k] = store[k] \/ (SaveSet(c) /\ call[c].key = k)
    BY <2>2 DEF SaveSet, TypeOK
  <2>3. ASSUME NEW c \in Client, AppendSet(c)
        PROVE  \/ store'[k] = store[k]
               \/ /\ Len(store[k]) < Len(store'[k])
                  /\ SubSeq(store'[k], 1, Len(store[k])) = store[k]
    BY <2>3, AppendExtends DEF AppendSet, TypeOK, Fresh, Call
  <2> QED
    BY <2>1, <2>2, <2>3 DEF Next, Step, ServerDies, Invoke, Connect, AppendGet,
       ReadGet, CommandFails
<1> QED
  BY <1>1, <1>2, TypeInit, TypeStep, FreshStep, PTL DEF Spec, AppendOnly

-----------------------------------------------------------------------------
Busy == {c \in Client : pc[c] # "idle"}

\* A return of this module is a return of AtomicStore.
LEMMA ReturnMaps ==
    ASSUME TypeOK, NEW c \in Client, NEW value, InCall(c), Return(c, value),
           UNCHANGED call
    PROVE  Abstract!Return(c, value)
<1>1. Busy' = Busy \ {c}
  BY DEF Return, TypeOK, Busy, InCall
<1>2. c \in Busy
  BY DEF Busy, InCall
<1> QED
  BY <1>1, <1>2 DEF Abstract!Return, Return, Busy

\* A process that crashes stays inside its call.
LEMMA CrashMaps ==
    ASSUME TypeOK, NEW c \in Client, InCall(c), pc' = [pc EXCEPT ![c] = "crashed"]
    PROVE  Busy' = Busy
BY DEF TypeOK, Busy, InCall

\* An append that leaves before its SET returns, or stays inside for ever.
LEMMA LeaveMaps ==
    ASSUME TypeOK, NEW c \in Client, NEW value, InCall(c), LeaveAppend(c, value),
           UNCHANGED <<store, call, seen>>
    PROVE  Return(c, value) \/ UNCHANGED Abstract!avars
BY CrashMaps DEF LeaveAppend, Abstract!avars, Busy

\* With one writer, each step is a step of AtomicStore or changes nothing that
\* AtomicStore shows.
LEMMA StepMaps ==
    ASSUME OneWriter
    PROVE  TypeOK /\ Roles /\ Fresh /\ ReadyToSet /\ [Next]_vars
              => [Abstract!Next]_Abstract!avars
<1> SUFFICES ASSUME TypeOK, Roles, Fresh, ReadyToSet, [Next]_vars
             PROVE  [Abstract!Next]_Abstract!avars
  OBVIOUS
<1> DEFINE Stutter == UNCHANGED Abstract!avars
<1>0. Call = Abstract!Call
  BY DEF Call, Abstract!Call, Op, Abstract!Op
<1>1. CASE ServerDies
  BY <1>1 DEF ServerDies, Abstract!avars
<1>2. ASSUME NEW c \in Client, Invoke(c) PROVE Abstract!Invoke(c)
  <2>1. Busy' = Busy \union {c} /\ c \notin Busy
    BY <1>2 DEF Invoke, Busy, TypeOK
  <2>2. \E new \in Abstract!Call : call' = [call EXCEPT ![c] = new]
    BY <1>0, <1>2 DEF Invoke, Allowed
  <2> QED
    BY <1>2, <2>1, <2>2 DEF Invoke, Abstract!Invoke, Busy
<1>3. ASSUME NEW c \in Client, Connect(c) PROVE Abstract!Fail(c) \/ Stutter
  <2>1. CASE up
    <3>1. Busy' = Busy
      BY <1>3, <2>1 DEF Connect, Busy, TypeOK
    <3> QED
      BY <1>3, <2>1, <3>1 DEF Connect, Abstract!avars, Busy
  <2>2. CASE ~up
    BY <1>3, <2>2, ReturnMaps DEF Connect, InCall, Abstract!Fail
  <2> QED
    BY <2>1, <2>2
<1>4. ASSUME NEW c \in Client, AppendGet(c) PROVE Abstract!AppendRecord(c) \/ Stutter
  <2>1. CASE call[c].rec \in Range(store[call[c].key])
    <3>1. Return(c, "RET_OK") \/ Stutter
      BY <1>4, <2>1, LeaveMaps DEF AppendGet, InCall
    <3>2. store = [store EXCEPT ![call[c].key] =
                      Abstract!WithRecord(store[call[c].key], call[c].rec)]
      BY <2>1 DEF TypeOK, Range, Abstract!Range, Abstract!WithRecord
    <3> QED
      BY <1>4, <3>1, <3>2, ReturnMaps DEF AppendGet, InCall, Abstract!AppendRecord,
         Abstract!RetVal
  <2>2. CASE call[c].rec \notin Range(store[call[c].key])
    <3>1. Busy' = Busy
      BY <1>4, <2>2 DEF AppendGet, Busy, TypeOK
    <3> QED
      BY <1>4, <2>2, <3>1 DEF AppendGet, Abstract!avars, Busy
  <2> QED
    BY <2>1, <2>2
<1>5. ASSUME NEW c \in Client, AppendSet(c) PROVE Abstract!AppendRecord(c)
  <2>1. Append(orig[c], call[c].rec) =
          Abstract!WithRecord(store[call[c].key], call[c].rec)
    BY <1>5 DEF AppendSet, Fresh, ReadyToSet, Range, Abstract!Range, Abstract!WithRecord
  <2> QED
    BY <1>5, <2>1, ReturnMaps DEF AppendSet, InCall, Abstract!AppendRecord, RetVal,
       Abstract!RetVal
<1>6. ASSUME NEW c \in Client, SaveSet(c) PROVE Abstract!Save(c)
  BY <1>6, ReturnMaps DEF SaveSet, InCall, Abstract!Save, RetVal, Abstract!RetVal
<1>7. ASSUME NEW c \in Client, ReadGet(c)
      PROVE  Abstract!Read(c) \/ Abstract!Skip(c) \/ Abstract!Fail(c)
  <2>1. CASE store[call[c].key] # <<>>
    BY <1>7, <2>1, ReturnMaps DEF ReadGet, InCall, Abstract!Read, RetVal,
       Abstract!RetVal
  <2>2. CASE store[call[c].key] = <<>>
    <3>1. seen' = seen
      BY <1>7, <2>2 DEF ReadGet, TypeOK, Roles, InCall
    <3> QED
      BY <1>7, <2>2, <3>1, ReturnMaps DEF ReadGet, InCall, Abstract!Skip, Abstract!Fail
  <2> QED
    BY <2>1, <2>2
<1>8. ASSUME NEW c \in Client, CommandFails(c)
      PROVE  Abstract!Skip(c) \/ Abstract!Fail(c) \/ Stutter
  <2>1. CASE pc[c] = "GET" /\ call[c].op = "append" /\ LeaveAppend(c, "RET_ERR")
    BY <1>8, <2>1, LeaveMaps, ReturnMaps DEF CommandFails, InCall, Abstract!Fail
  <2>2. CASE ~(pc[c] = "GET" /\ call[c].op = "append")
    BY <1>8, <2>2, ReturnMaps DEF CommandFails, InCall, Abstract!Skip, Abstract!Fail
  <2> QED
    BY <1>8, <2>1, <2>2 DEF CommandFails
<1>9. CASE UNCHANGED vars
  BY <1>9 DEF vars, Abstract!avars
<1> QED
  BY <1>1, <1>2, <1>3, <1>4, <1>5, <1>6, <1>7, <1>8, <1>9 DEF Next, Step, Abstract!Next

\* As long as one process writes, redis commands sent one by one give the
\* atomic calls that monitor_glb.h describes, server failures included.
THEOREM OneWriterIsAtomic ==
    ASSUME OneWriter
    PROVE  Spec => AtomicCalls
<1>1. Init => Abstract!Init
  BY DEF Init, Abstract!Init, Call, Abstract!Call, Op, Abstract!Op
<1>2. Init => Roles /\ Fresh /\ ReadyToSet /\ AllDistinct
  BY DEF Init, Roles, Fresh, InCall, ReadyToSet, AllDistinct, Distinct
<1> QED
  BY <1>1, <1>2, TypeInit, TypeStep, DistinctStep, FreshStep, StepMaps, PTL
     DEF Spec, AtomicCalls, Abstract!Spec
=============================================================================
