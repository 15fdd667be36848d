---------------------------- MODULE AtomicStore ----------------------------
(***************************************************************************)
(* What monitor_glb.h promises the processes of smartDNS: an interface to  *)
(* shared lists of records, in which every call takes effect, wholly and    *)
(* once, at one point between its start and its return, or has no effect    *)
(* and returns RET_ERR.  RET_ERR does not say which of the two happened:    *)
(* the reply may be what was lost.                                          *)
(*                                                                         *)
(*   save      save_binary_in_str        the list becomes the one record   *)
(*   append    append_binary_to_str,     the record joins the list, unless *)
(*             append_binary_in_hash     it is there already               *)
(*   traverse  traverse_binary_str,      the list, or nothing when it does *)
(*             traverse_hash_binary_str  not exist or cannot be had        *)
(*   dispose   dispose_binary_in_str     the list, RET_ERR without it      *)
(***************************************************************************)
EXTENDS Integers, Sequences, Functions

CONSTANTS Client,  \* the processes that use the store
          Key,     \* labels of strings, and <hash, field> pairs
          Rec      \* serialised records, all of one size for a key

Op == {"save", "append", "traverse", "dispose"}
Call == [op : Op, key : Key, rec : Rec]
RetVal == {"RET_OK", "RET_ERR"}

VARIABLES store,  \* Key -> list of records, <<>> when the key does not exist
          call,   \* Client -> its last call
          busy,   \* the clients inside a call
          ret,    \* Client -> return value of its last call
          seen    \* Client -> the list its last reading call delivered

avars == <<store, call, busy, ret, seen>>

\* The list with the record added the way append_binary_*() adds it.
WithRecord(list, rec) == IF rec \in Range(list) THEN list ELSE Append(list, rec)

\* A client that has not called anything looks as after a failed call.
Init ==
    /\ store = [k \in Key |-> <<>>]
    /\ call \in [Client -> Call]
    /\ busy = {}
    /\ ret = [c \in Client |-> "RET_ERR"]
    /\ seen = [c \in Client |-> <<>>]

Invoke(c) ==
    /\ c \notin busy
    /\ \E new \in Call : call' = [call EXCEPT ![c] = new]
    /\ busy' = busy \union {c}
    /\ seen' = [seen EXCEPT ![c] = <<>>]
    /\ UNCHANGED <<store, ret>>

Return(c, value) ==
    /\ c \in busy
    /\ busy' = busy \ {c}
    /\ ret' = [ret EXCEPT ![c] = value]
    /\ UNCHANGED call

Save(c) ==
    /\ \E value \in RetVal : Return(c, value)
    /\ call[c].op = "save"
    /\ store' = [store EXCEPT ![call[c].key] = <<call[c].rec>>]
    /\ UNCHANGED seen

AppendRecord(c) ==
    /\ \E value \in RetVal : Return(c, value)
    /\ call[c].op = "append"
    /\ store' = [store EXCEPT ![call[c].key] = WithRecord(@, call[c].rec)]
    /\ UNCHANGED seen

\* A reading call returns at once with the list it delivers, and with RET_ERR
\* when the caller's function fails on a record.
Read(c) ==
    /\ \E value \in RetVal : Return(c, value)
    /\ call[c].op \in {"traverse", "dispose"}
    /\ store[call[c].key] # <<>>
    /\ seen' = [seen EXCEPT ![c] = store[call[c].key]]
    /\ UNCHANGED store

\* "NO data, just skip!!!": no data is no error to traverse_*().
Skip(c) ==
    /\ Return(c, "RET_OK")
    /\ call[c].op = "traverse"
    /\ UNCHANGED <<store, seen>>

Fail(c) ==
    /\ Return(c, "RET_ERR")
    /\ UNCHANGED <<store, seen>>

Next ==
    \E c \in Client :
        \/ Invoke(c) \/ Save(c) \/ AppendRecord(c) \/ Read(c) \/ Skip(c) \/ Fail(c)

Spec == Init /\ [][Next]_avars
=============================================================================
