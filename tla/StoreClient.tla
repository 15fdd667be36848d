---------------------------- MODULE StoreClient ----------------------------
(***************************************************************************)
(* The functions of monitor.c through which every process of smartDNS uses *)
(* the redis server, command by command: each call opens a connection,     *)
(* sends its GET and/or SET commands one after the other, and closes it.   *)
(* Between a GET and the SET that depends on it anybody may write.         *)
(*                                                                         *)
(* A value is the list of the records it is the concatenation of; that all *)
(* the records under one key have one size is the callers' business.       *)
(***************************************************************************)
EXTENDS Integers, Sequences, Functions

CONSTANTS Client,    \* the processes that use the store
          Writer,    \* those of them that save and append
          StrKey,    \* labels of redis strings
          HashKey,   \* <hash, field> pairs of redis hashes
          Rec,       \* serialised records
          Garbage    \* what append_binary_in_hash() may find in its local
                     \* `reply` when it frees it without having set it

\* "null" and "valid memory" have no effect; "wild" is a crash in free().
ASSUME StoreAssumption == /\ Writer \subseteq Client
                          /\ StrKey \intersect HashKey = {}
                          /\ Garbage \subseteq {"null", "wild"}
                          /\ Garbage # {}

Key == StrKey \union HashKey
Op == {"save", "append", "traverse", "dispose"}
Call == [op : Op, key : Key, rec : Rec]
RetVal == {"RET_OK", "RET_ERR"}

VARIABLES store,  \* the server's data: Key -> list of records, <<>> for none
          up,     \* does the server answer?
          pc,     \* Client -> the command it sends next, or "idle", "crashed"
          call,   \* Client -> its last call
          orig,   \* Client -> orig_data_reply of its append
          ret,    \* Client -> return value of its last call
          seen    \* Client -> the list its last reading call went through

vars == <<store, up, pc, call, orig, ret, seen>>

PC == {"idle", "connect", "GET", "SET", "crashed"}

TypeOK ==
    /\ store \in [Key -> Seq(Rec)]
    /\ up \in BOOLEAN
    /\ pc \in [Client -> PC]
    /\ call \in [Client -> Call]
    /\ orig \in [Client -> Seq(Rec)]
    /\ ret \in [Client -> RetVal]
    /\ seen \in [Client -> Seq(Rec)]

Init ==
    /\ store = [k \in Key |-> <<>>]
    /\ up = TRUE
    /\ pc = [c \in Client |-> "idle"]
    /\ call \in [Client -> Call]
    /\ orig = [c \in Client |-> <<>>]
    /\ ret = [c \in Client |-> "RET_ERR"]
    /\ seen = [c \in Client |-> <<>>]

\* The calls a client makes; there are no hash variants of save and dispose.
Allowed(c) ==
    {x \in Call : /\ x.op \in {"save", "append"} => c \in Writer
                  /\ x.op \in {"save", "dispose"} => x.key \in StrKey}

Invoke(c) ==
    /\ pc[c] = "idle"
    /\ \E new \in Allowed(c) : call' = [call EXCEPT ![c] = new]
    /\ pc' = [pc EXCEPT ![c] = "connect"]
    /\ seen' = [seen EXCEPT ![c] = <<>>]
    /\ UNCHANGED <<store, up, orig, ret>>

\* The call returns; its local variables are gone.
Return(c, value) ==
    /\ pc' = [pc EXCEPT ![c] = "idle"]
    /\ ret' = [ret EXCEPT ![c] = value]
    /\ orig' = [orig EXCEPT ![c] = <<>>]

\* Mutation: a failed connection is tried again for ever.
Connect_Retry(c) ==
    /\ pc[c] = "connect"
    /\ up
    /\ pc' = [pc EXCEPT ![c] = IF call[c].op = "save" THEN "SET" ELSE "GET"]
    /\ UNCHANGED <<store, up, call, orig, ret, seen>>

\* Mutation: the error of the connection is returned instead of RET_ERR.
Connect_Errno(c) ==
    /\ pc[c] = "connect"
    /\ \/ /\ up
          /\ pc' = [pc EXCEPT ![c] = IF call[c].op = "save" THEN "SET" ELSE "GET"]
          /\ UNCHANGED <<orig, ret>>
       \/ ~up /\ Return(c, "REDIS_ERR_IO")
    /\ UNCHANGED <<store, up, call, seen>>

\* connect_redis()
Connect(c) ==
    /\ pc[c] = "connect"
    /\ \/ /\ up
          /\ pc' = [pc EXCEPT ![c] = IF call[c].op = "save" THEN "SET" ELSE "GET"]
          /\ UNCHANGED <<orig, ret>>
       \/ ~up /\ Return(c, "RET_ERR")
    /\ UNCHANGED <<store, up, call, seen>>

\* The exit of an append before its own SET.  append_binary_in_hash() frees a
\* `reply` it has not initialised, append_binary_to_str() starts with NULL.
LeaveAppend(c, value) ==
    \/ Return(c, value) /\ (call[c].key \in StrKey \/ "null" \in Garbage)
    \/ /\ call[c].key \in HashKey
       /\ "wild" \in Garbage
       /\ pc' = [pc EXCEPT ![c] = "crashed"]
       /\ orig' = [orig EXCEPT ![c] = <<>>]
       /\ UNCHANGED ret

\* GET (HGET) of an append: nothing to do when the record is in the list.
AppendGet(c) ==
    /\ pc[c] = "GET"
    /\ up
    /\ call[c].op = "append"
    /\ \/ /\ call[c].rec \in Range(store[call[c].key])
          /\ LeaveAppend(c, "RET_OK")
       \/ /\ call[c].rec \notin Range(store[call[c].key])
          /\ orig' = [orig EXCEPT ![c] = store[call[c].key]]
          /\ pc' = [pc EXCEPT ![c] = "SET"]
          /\ UNCHANGED ret
    /\ UNCHANGED <<store, up, call, seen>>

\* Mutation: the old value is left out of the SET, as in the branch for NIL.
AppendSet_NoOld(c) ==
    /\ pc[c] = "SET"
    /\ up
    /\ call[c].op = "append"
    /\ store' = [store EXCEPT ![call[c].key] = <<call[c].rec>>]
    /\ Return(c, "RET_OK")
    /\ UNCHANGED <<up, call, seen>>

\* SET (HSET) of an append: the old value as read, and the record.  redis may
\* carry out the command although its reply is lost.
AppendSet(c) ==
    /\ pc[c] = "SET"
    /\ up
    /\ call[c].op = "append"
    /\ store' = [store EXCEPT ![call[c].key] = Append(orig[c], call[c].rec)]
    /\ \E value \in RetVal : Return(c, value)
    /\ UNCHANGED <<up, call, seen>>

\* SET of save_binary_in_str()
SaveSet(c) ==
    /\ pc[c] = "SET"
    /\ up
    /\ call[c].op = "save"
    /\ store' = [store EXCEPT ![call[c].key] = <<call[c].rec>>]
    /\ \E value \in RetVal : Return(c, value)
    /\ UNCHANGED <<up, call, seen>>

\* GET of a reading call.  Without data dispose_*() fails, traverse_*() not;
\* with data the function the caller has passed decides.
ReadGet(c) ==
    /\ pc[c] = "GET"
    /\ up
    /\ call[c].op \in {"traverse", "dispose"}
    /\ seen' = [seen EXCEPT ![c] = store[call[c].key]]
    /\ \/ store[call[c].key] # <<>> /\ \E value \in RetVal : Return(c, value)
       \/ /\ store[call[c].key] = <<>>
          /\ Return(c, IF call[c].op = "dispose" THEN "RET_ERR" ELSE "RET_OK")
    /\ UNCHANGED <<store, up, call>>

\* Mutation: `tmp_ret = RET_OK` moves before the test of the SET's reply.
CommandFails_SetIgnored(c) ==
    /\ \/ pc[c] = "GET" /\ call[c].op = "append" /\ LeaveAppend(c, "RET_ERR")
       \/ pc[c] = "GET" /\ call[c].op = "traverse" /\ Return(c, "RET_OK")
       \/ pc[c] = "GET" /\ call[c].op = "dispose" /\ Return(c, "RET_ERR")
       \/ pc[c] = "SET" /\ Return(c, "RET_OK")
    /\ UNCHANGED <<store, up, call, seen>>

\* The command is not carried out: the connection broke before, or the server
\* refuses it with an error reply.  Only traverse_*() takes this for "no data".
CommandFails(c) ==
    /\ \/ pc[c] = "GET" /\ call[c].op = "append" /\ LeaveAppend(c, "RET_ERR")
       \/ pc[c] = "GET" /\ call[c].op = "traverse" /\ Return(c, "RET_OK")
       \/ pc[c] = "GET" /\ call[c].op = "dispose" /\ Return(c, "RET_ERR")
       \/ pc[c] = "SET" /\ Return(c, "RET_ERR")
    /\ UNCHANGED <<store, up, call, seen>>

\* redis dies; nothing in smartDNS starts it again.
ServerDies == up /\ up' = FALSE /\ UNCHANGED <<store, pc, call, orig, ret, seen>>

Step(c) == Connect(c) \/ AppendGet(c) \/ AppendSet(c) \/ SaveSet(c) \/ ReadGet(c)
           \/ CommandFails(c)

Next == ServerDies \/ \E c \in Client : Invoke(c) \/ Step(c)

Spec == Init /\ [][Next]_vars

\* hiredis answers every command in the end, with a reply or without; a client
\* is free not to call again.
FairSpec == Spec /\ \A c \in Client : WF_vars(Step(c))

-----------------------------------------------------------------------------
\* No list holds a record twice, however the appends of several writing processes
\* interleave: what is written is what was read plus a record not in it, whatever
\* the list has become meanwhile.  (Records may be lost that way: AtomicCalls.)
NoDuplicates ==
    \A k \in Key : \A i, j \in 1 .. Len(store[k]) :
        store[k][i] = store[k][j] => i = j

\* The lists only grow at their end, except under save: a reader that goes
\* through a list keeps finding in it, in the same order, what it found before.
\* It takes that no append writes back an old list over a newer one.
AppendOnly ==
    [][\A k \in Key :
          \/ store'[k] = store[k]
          \/ \E c \in Client : SaveSet(c) /\ call[c].key = k
          \/ /\ Len(store[k]) < Len(store'[k])
             /\ SubSeq(store'[k], 1, Len(store[k])) = store[k]]_vars

\* The interface of monitor_glb.h is atomic (AtomicStore): every call takes
\* effect at its last command, wholly and once, or not at all and fails.  A process
\* that crashes in free() stays inside its call for ever, without an effect.
Abstract == INSTANCE AtomicStore WITH busy <- {c \in Client : pc[c] # "idle"}
AtomicCalls == Abstract!Spec

\* Every call returns, or its process has crashed in free().
CallsEnd == \A c \in Client : pc[c] = "connect" ~> pc[c] \in {"idle", "crashed"}
=============================================================================
