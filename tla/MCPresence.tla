----------------------------- MODULE MCPresence -----------------------------
(***************************************************************************)
(* Presence for TLC: a second is ten clock units and a bucket one second,  *)
(* so the time to live of a key, as many seconds as a bucket has clock     *)
(* units, is much longer than the window, as it is in the program.         *)
(***************************************************************************)
EXTENDS Presence, TLC

CONSTANTS A, B  \* user ids
CONSTANTS D, E  \* segments of device ids

Dev(id, type, user, status) ==
    [id |-> id, type |-> type, user |-> user, status |-> status]

\* One device that two users put online and take offline.
SharedDevice == {Dev(<<D>>, 0, u, st) : u \in {<<A>>, <<B>>}, st \in {0, 1}}

\* The same device: its user puts it online and takes it offline, and another
\* user puts it online.
Handover == SharedDevice \ {Dev(<<D>>, 0, <<B>>, 1)}
OneUser == {<<A>>}

MCText == {WS, A, B, D, E}

\* What a request can hold: no device, no id, an id with a ":", a type the enum
\* does not name; and keys that meet: a user called "WS" and devices whose id is
\* the number of a bucket.
OddRequests ==
    {Nil, Dev(<<>>, 0, <<A>>, 0), Dev(<<D, E>>, 0, <<A>>, 0), Dev(<<D>>, 7, <<A>>, 0),
     Dev(<<2>>, 0, <<WS>>, 0), Dev(<<2>>, 0, <<A>>, 0), Dev(<<2>>, 0, <<A>>, 1)}
OddUsers == {<<A>>, <<WS>>, <<>>}

Symmetry == Permutations(Setters)
=============================================================================
