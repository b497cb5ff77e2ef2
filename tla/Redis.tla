------------------------------- MODULE Redis -------------------------------
(***************************************************************************)
(* The Redis commands the service uses, as functions of the database.      *)
(* Redis itself is not part of the repository: each operator is what       *)
(* devicepresence/manager.go relies on.                                    *)
(*                                                                         *)
(* A database is a function whose domain is the set of existing keys.  A   *)
(* value is a set of members or a string, and carries the instant at which *)
(* it expires (Never when it has no time to live).  All commands see a     *)
(* database from which Evict has removed what has expired.                 *)
(***************************************************************************)
EXTENDS Integers

Never == -1

SetValue(members) == [kind |-> "set", members |-> members, string |-> <<>>, expires |-> Never]
StringValue(s) == [kind |-> "string", members |-> {}, string |-> s, expires |-> Never]

EmptyDatabase == [k \in {} |-> StringValue(<<>>)]

IsString(db, k) == k \in DOMAIN db /\ db[k].kind = "string"
IsSet(db, k) == k \in DOMAIN db /\ db[k].kind = "set"

Store(db, k, v) == [x \in DOMAIN db \cup {k} |-> IF x = k THEN v ELSE db[x]]

Evict(db, now) ==
    [x \in {k \in DOMAIN db : db[k].expires = Never \/ db[k].expires > now} |-> db[x]]

-----------------------------------------------------------------------------
\* SADD keeps the time to live of an existing set.  On a string it fails with
\* WRONGTYPE and changes nothing.
SADD(db, k, m) ==
    CASE IsString(db, k) -> db
      [] IsSet(db, k)    -> [db EXCEPT ![k].members = @ \cup {m}]
      [] OTHER           -> Store(db, k, SetValue({m}))

\* SET replaces a value of any kind and drops its time to live.
SET(db, k, s) == Store(db, k, StringValue(s))

EXPIRE(db, k, at) ==
    IF k \in DOMAIN db THEN [db EXCEPT ![k].expires = at] ELSE db

DEL(db, k) == [x \in DOMAIN db \ {k} |-> db[x]]

\* SUNION of keys none of which is a string; absent keys are empty sets.
SUNION(db, keys) == UNION {db[k].members : k \in keys \cap DOMAIN db}
=============================================================================
