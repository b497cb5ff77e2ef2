------------------------------- MODULE Proto -------------------------------
(***************************************************************************)
(* Messages on their way: marshalled, appended to what was sent before,    *)
(* passed on by a program built from older definitions, cut short, and     *)
(* unmarshalled; with the message Merge makes of what was sent beside it.  *)
(***************************************************************************)
EXTENDS ProtoCodec

CONSTANTS
    Samples,    \* the messages sent: <<type, message>>
    Older(_),   \* what an older program knows of a type
    MaxSent(_)  \* how many messages of a type are sent

VARIABLES
    type,    \* the type of the messages
    sent,    \* history: the messages, in order
    merged,  \* the messages merged
    buf,     \* the bytes sent
    errs,    \* what Marshal returned for each
    state,   \* history: whole, relayed or cut
    res      \* what Unmarshal gave, Nil before

vars == <<type, sent, merged, buf, errs, state, res>>

Init ==
    /\ type \in {s[1] : s \in Samples}
    /\ sent = <<>> /\ buf = <<>> /\ errs = {} /\ state = "whole" /\ res = Nil
    /\ merged = Reset(type)

\* Marshal, and Merge in the sender; the bytes of two messages are one.
Send(m) ==
    LET e == Marshal(type, m)
    IN  /\ Len(sent) < MaxSent(type) /\ state = "whole" /\ res = Nil
        /\ sent' = Append(sent, m)
        /\ errs' = errs \cup {e.err}
        /\ IF e.out = Nil THEN UNCHANGED <<buf, merged>>
           ELSE buf' = buf \o e.out /\ merged' = Merge(type, merged, m)
        /\ UNCHANGED <<type, state, res>>

\* Unmarshal and Marshal in a program that does not know every field.
Relay ==
    LET t == Older(type)
        r == Unmarshal(t, buf)
    IN  /\ sent # <<>> /\ state = "whole" /\ res = Nil
        /\ shouldContinue(r.err)
        /\ buf' = Marshal(t, r.v).out
        /\ state' = "relayed"
        /\ UNCHANGED <<type, sent, merged, errs, res>>

Cut(n) ==
    /\ state = "whole" /\ res = Nil
    /\ buf' = SubSeq(buf, 1, n)
    /\ state' = "cut"
    /\ UNCHANGED <<type, sent, merged, errs, res>>

Receive ==
    /\ sent # <<>> /\ res = Nil
    /\ res' = Unmarshal(type, buf)
    /\ UNCHANGED <<type, sent, merged, buf, errs, state>>

Next ==
    \/ \E s \in Samples : s[1] = type /\ Send(s[2])
    \/ Relay
    \/ \E n \in 0 .. Len(buf) - 1 : Cut(n)
    \/ Receive

Spec == Init /\ [][Next]_vars

-----------------------------------------------------------------------------

(***************************************************************************)
(* Unmarshalling what was marshalled gives, by Equal, the message Merge    *)
(* makes of the messages sent: encoders, decoders and mergers of every     *)
(* kind of field agree, and sending two messages back to back merges them  *)
(* (UnmarshalMerge), whatever a program with older definitions passed on.  *)
(***************************************************************************)
RoundTrip ==
    res # Nil /\ state # "cut" /\ errs \subseteq {"no", "required"} =>
        shouldContinue(res.err) /\ equalStruct(type, res.v, merged)

(***************************************************************************)
(* "Size returns the encoded size of a protocol buffer" (encode.go): the   *)
(* sizers, written beside the encoders, count what these write.            *)
(***************************************************************************)
SizeIsLength ==
    state = "whole" /\ Len(sent) = 1 /\ errs = {"no"} => size_struct(type, sent[1]) = Len(buf)

\* Every required field of m is set.
RECURSIVE Complete(_, _)
Complete(t, m) ==
    \A i \in 1 .. Len(t.props) :
        LET p == t.props[i]
            v == m.f[i]
        IN  CASE p.type = "struct" /\ IsRepeated(p) -> \A k \in 1 .. Len(v) : Complete(p.sub, v[k])
              [] p.type = "struct" /\ ~IsRepeated(p) -> IF v = Nil THEN p.label # "req"
                                                        ELSE Complete(p.sub, v)
              [] p.type = "map" -> TRUE
              [] OTHER -> p.label = "req" => v # Nil

(***************************************************************************)
(* RequiredNotSetError "is also the error returned if Unmarshal is called  *)
(* with an encoded protocol buffer that does not include all the required  *)
(* fields" (encode.go), however often the others are in it.                *)
(***************************************************************************)
RequiredReported == res # Nil /\ res.err = "no" => Complete(type, res.v)

(***************************************************************************)
(* A message that was cut short is refused, or was cut between two fields: *)
(* what was decoded is what the remaining bytes say, byte for byte.        *)
(***************************************************************************)
CutNoticed ==
    res # Nil /\ state = "cut" /\ Len(sent) = 1 /\ shouldContinue(res.err) =>
        Marshal(type, res.v).out = buf

\* Every field of m that has a default is set, in sub-messages too.
RECURSIVE Defaulted(_, _)
Defaulted(t, m) ==
    \A i \in 1 .. Len(t.props) :
        LET p == t.props[i]
            v == m.f[i]
        IN  CASE p.type = "struct" /\ IsRepeated(p) -> \A k \in 1 .. Len(v) : v[k] # Nil => Defaulted(p.sub, v[k])
              [] p.type = "struct" /\ ~IsRepeated(p) -> v # Nil => Defaulted(p.sub, v)
              [] p.type = "map" /\ p.val.type = "struct" -> \A k \in DOMAIN v : Defaulted(p.val.sub, v[k])
              [] OTHER -> p.def # Nil => v # Nil

(***************************************************************************)
(* SetDefaults "recursively sets default values in any non-nil             *)
(* sub-messages" (lib.go), and leaves what is set: the message with its    *)
(* defaults merged with the message is the message with its defaults.      *)
(***************************************************************************)
DefaultsSet ==
    (\A i \in 1 .. Len(type.props) : type.props[i].label # "proto3") => \A k \in 1 .. Len(sent) :
        LET m == setDefaults(type, sent[k])
        IN  /\ Defaulted(type, m)
            /\ \A i \in 1 .. Len(type.props) :
                   ~IsRepeated(type.props[i]) => equalAny(type.props[i], mergeAny(type.props[i], m.f[i], sent[k].f[i]), m.f[i])
=============================================================================
