-------------------------------- MODULE GlogV -------------------------------
(***************************************************************************)
(* V logging of golang/glog: V(level) decides with two atomic loads whether *)
(* a call site logs, and only with -vmodule set takes the mutex to look    *)
(* the site up in a cache; the flags -v and -vmodule may be set at any     *)
(* time, in several atomic stores (setVState).                             *)
(***************************************************************************)
EXTENDS Integers, Sequences, FiniteSetsExt

CONSTANTS Callers, Setters,
          Sites,         \* call sites: their program counters
          Levels,        \* arguments of V and values of -v
          Filters,       \* values of -vmodule: sequences of [sites, level], also malformed ones
          MaxSets        \* bound: flags set

None == "none"

VARIABLES mu,
          verbosity, filterLength, filter,
          vmap,          \* site -> level, for the sites looked up
          set,           \* per setter [at, v, filter, setFilter]
          call,          \* per caller [at, site, level, result]
          could,         \* per caller the answers that the settings gave during its call
          conf,          \* the settings in force, and those being made
          sets

vars == <<mu, verbosity, filterLength, filter, vmap, set, call, could, conf, sets>>

Idle == [at |-> "idle", v |-> 0, filter |-> <<>>, setFilter |-> FALSE]

NoCall == [at |-> "idle", site |-> None, level |-> 0, result |-> FALSE]

Init ==
  /\ mu = None
  /\ verbosity = 0
  /\ filterLength = 0
  /\ filter = <<>>
  /\ vmap = <<>>
  /\ set = [p \in Setters |-> Idle]
  /\ call = [p \in Callers |-> NoCall]
  /\ could = [p \in Callers |-> {}]
  /\ conf = {[v |-> 0, filter |-> <<>>]}
  /\ sets = 0

\* setV: the level of the first pattern that matches the file of the site.
setV(f, site) ==
  LET matching == {i \in DOMAIN f : site \in f[i].sites}
  IN  IF matching = {} THEN 0 ELSE f[Min(matching)].level

\* What V answers when nothing moves.
Enabled(c, site, level) == c.v >= level \/ (c.filter # <<>> /\ setV(c.filter, site) >= level)

\* moduleSpec.Set drops the patterns of level zero.
Parsed(f) == SelectSeq(f, LAMBDA pat : pat.level # 0)

Malformed(f) == \E i \in DOMAIN f : f[i].level < 0

Made(s) == [v |-> s.v, filter |-> s.filter]

\* While a setting is under way V may also answer no.
Note(c) ==
  could' = [p \in Callers |->
    IF call[p].at \in {"idle", "done"} THEN could[p]
    ELSE could[p] \cup {FALSE, Enabled(c, call[p].site, call[p].level)}]

-----------------------------------------------------------------------------
(* Setting a flag                                                          *)

\* Level.Set (v given, the filter kept) and moduleSpec.Set (the filter given,
\* a malformed one refused), up to and including the lock.
Begin(p, v, f, setFilter) ==
  /\ set[p].at = "idle" /\ mu = None /\ sets < MaxSets
  /\ setFilter => ~Malformed(f)
  /\ sets' = sets + 1
  /\ mu' = p
  /\ set' = [set EXCEPT ![p] = [at |-> "off", v |-> IF setFilter THEN verbosity ELSE v,
                                filter |-> IF setFilter THEN Parsed(f) ELSE filter, setFilter |-> setFilter]]
  /\ conf' = conf \cup {Made(set'[p])}
  /\ Note(Made(set'[p]))
  /\ UNCHANGED <<verbosity, filterLength, filter, vmap, call>>

Goto(p, at) == set' = [set EXCEPT ![p].at = at]

\* The stores of setVState.
VerbosityOff(p) ==
  /\ set[p].at = "off"
  /\ verbosity' = 0
  /\ Goto(p, "length")
  /\ UNCHANGED <<mu, filterLength, filter, vmap, call, could, conf, sets>>

LengthOff(p) ==
  /\ set[p].at = "length"
  /\ filterLength' = 0
  /\ Goto(p, "filter")
  /\ UNCHANGED <<mu, verbosity, filter, vmap, call, could, conf, sets>>

SetFilter(p) ==
  /\ set[p].at = "filter"
  /\ filter' = IF set[p].setFilter THEN set[p].filter ELSE filter
  /\ vmap' = IF set[p].setFilter THEN <<>> ELSE vmap
  /\ Goto(p, "on")
  /\ UNCHANGED <<mu, verbosity, filterLength, call, could, conf, sets>>

LengthOn(p) ==
  /\ set[p].at = "on"
  /\ filterLength' = Len(set[p].filter)
  /\ Goto(p, "verbosity")
  /\ UNCHANGED <<mu, verbosity, filter, vmap, call, could, conf, sets>>

VerbosityOn(p) ==
  /\ set[p].at = "verbosity"
  /\ verbosity' = set[p].v
  /\ mu' = None
  /\ conf' = {Made(set[p])}
  /\ Goto(p, "idle")
  /\ UNCHANGED <<filterLength, filter, vmap, call, could, sets>>

-----------------------------------------------------------------------------
(* V                                                                       *)

V(p, site, level) ==
  /\ call[p].at \in {"idle", "done"}
  /\ call' = [call EXCEPT ![p] = [at |-> "verbosity", site |-> site, level |-> level, result |-> FALSE]]
  /\ could' = [could EXCEPT ![p] = {Enabled(c, site, level) : c \in conf} \cup (IF mu \in Setters THEN {FALSE} ELSE {})]
  /\ UNCHANGED <<mu, verbosity, filterLength, filter, vmap, set, conf, sets>>

Answer(p, result) == call' = [call EXCEPT ![p].at = "done", ![p].result = result]

LoadVerbosity(p) ==
  /\ call[p].at = "verbosity"
  /\ IF verbosity >= call[p].level THEN Answer(p, TRUE) ELSE call' = [call EXCEPT ![p].at = "length"]
  /\ UNCHANGED <<mu, verbosity, filterLength, filter, vmap, set, could, conf, sets>>

LoadLength(p) ==
  /\ call[p].at = "length"
  /\ IF filterLength > 0 THEN call' = [call EXCEPT ![p].at = "lock"] ELSE Answer(p, FALSE)
  /\ UNCHANGED <<mu, verbosity, filterLength, filter, vmap, set, could, conf, sets>>

\* With the mutex: the cache, or the filter and then the cache.
Lookup(p) ==
  LET site == call[p].site
      v == IF site \in DOMAIN vmap THEN vmap[site] ELSE setV(filter, site)
  IN  /\ call[p].at = "lock" /\ mu = None
      /\ vmap' = [s \in DOMAIN vmap \cup {site} |-> IF s = site THEN v ELSE vmap[s]]
      /\ Answer(p, v >= call[p].level)
      /\ UNCHANGED <<mu, verbosity, filterLength, filter, set, could, conf, sets>>

Next ==
  \/ \E p \in Setters :
       \/ \E v \in Levels : Begin(p, v, <<>>, FALSE)
       \/ \E f \in Filters : Begin(p, 0, f, TRUE)
       \/ VerbosityOff(p) \/ LengthOff(p) \/ SetFilter(p) \/ LengthOn(p) \/ VerbosityOn(p)
  \/ \E p \in Callers :
       \/ \E s \in Sites, l \in Levels : V(p, s, l)
       \/ LoadVerbosity(p) \/ LoadLength(p) \/ Lookup(p)

Spec == Init /\ [][Next]_vars

-----------------------------------------------------------------------------
(* Properties                                                              *)

\* V answers yes only if settings that were in force, or were being made, at
\* some moment of the call enable the site, and no only if they do not or a
\* flag was being set: reading the level and the filter separately never
\* mixes an old and a new setting into an answer that neither gives
\* (glog.go:469, "sets a consistent state for V logging").
VAnswersSettings == \A p \in Callers : call[p].at = "done" => call[p].result \in could[p]

\* Outside a setting the cache agrees with the filter: "It is wiped whenever
\* the vmodule flag changes state" (glog.go:444).
CacheFresh == mu = None => \A s \in DOMAIN vmap : vmap[s] = setV(filter, s)

=============================================================================
