------------------------------ MODULE MCKafka -------------------------------
(***************************************************************************)
(* sarama under TLC: the circuit breaker, the broker connection and the    *)
(* consumer (extended, their names are their own), and the client.  A      *)
(* behaviour is one of them (part); the others rest in their initial       *)
(* states.                                                                 *)
(***************************************************************************)
EXTENDS Breaker, KafkaBroker, KafkaConsumer, TLC

CONSTANT Parts

VARIABLES part,
    \* KafkaClient
    seedBrokerAddrs, seedBroker, deadBrokerAddrs, brokers, metadata,
    cachedPartitionsResults, closed, obj, closing, proc, up, panicked

clientVars == <<seedBrokerAddrs, seedBroker, deadBrokerAddrs, brokers, metadata,
                cachedPartitionsResults, closed, obj, closing, proc, up, panicked>>
allVars == <<part, vars, clientVars, consumerVars, brokerVars>>

-----------------------------------------------------------------------------
(* A cluster of one broker, whose address may move, and a topic of one         *)
(* partition: what it can answer to a metadata request.                        *)
Seeds == <<"a", "b">>
Ans(addr, err, parts) == [brokers |-> 1 :> addr, topics |-> "t" :> [err |-> err, parts |-> parts]]
Good(addr) == Ans(addr, "nil", 1 :> [err |-> "nil", leader |-> 1])
Moving == {Good("a"), Good("b")}
Answers ==
    Moving \cup {Ans("a", e, <<>>) : e \in {"UnknownTopicOrPartition", "InvalidTopic"}}
    \cup {Ans("a", "LeaderNotAvailable", 1 :> [err |-> "LeaderNotAvailable", leader |-> 1]),
          Ans("a", "nil", 1 :> [err |-> "ReplicaNotAvailable", leader |-> 1]),
          [brokers |-> <<>>, topics |-> "t" :> [err |-> "nil", parts |-> 1 :> [err |-> "nil", leader |-> 2]]]}
Lookups == {"Leader", "Partitions", "WritablePartitions", "Replicas", "RefreshMetadata", "GetOffset"}
Topics == {"t"}
Objs == 1 .. 6
One == {"p"}

\* One goroutine after the other makes every call and closes the client.
Client == INSTANCE KafkaClient WITH
    Callers <- One, Background <- "p", Closers <- One, Ops <- Lookups,
    RetryMax <- 1, Once <- FALSE, MaxClosing <- 1

\* A caller and the background updater refresh, a third goroutine closes.
Refresh == {"RefreshMetadata"}
Closers == {"c"}
Racing == INSTANCE KafkaClient WITH
    Answers <- Moving, Callers <- One, Background <- "bg", Closers <- Closers, Ops <- Refresh,
    RetryMax <- 1, Once <- TRUE, MaxClosing <- 1

\* Two partitions led by one broker, no messages; or one partition that moves
\* between two brokers, with a message that fits, one that fits after the
\* fetch size has grown and one larger than Fetch.Max.
Apart == [k \in Children |-> k]
Sizes(o) == <<1, 3, 5>>[o + 1]
Sharing ==
    /\ ConsumerNext
    /\ \A w \in BrokerWorkers : worker'[w].broker # 2
    /\ \A c \in Children : child'[c].pending = <<>>
Reading == ConsumerNext /\ child'["c2"].at = "none"

-----------------------------------------------------------------------------
InitAll ==
    /\ part \in Parts
    /\ Init
    /\ IF part = "racing" THEN Racing!Init ELSE Client!Init
    /\ BrokerInit /\ ConsumerInit

InBreaker(A) ==
    part = "breaker" /\ A /\ UNCHANGED <<part, clientVars, consumerVars, brokerVars>>
InClient(A) ==
    part = "client" /\ A /\ UNCHANGED <<part, vars, consumerVars, brokerVars>>
InRacing(A) ==
    part = "racing" /\ A /\ UNCHANGED <<part, vars, consumerVars, brokerVars>>
InSharing(A) ==
    part = "sharing" /\ A /\ UNCHANGED <<part, vars, clientVars, brokerVars>>
InReading(A) ==
    part = "reading" /\ A /\ UNCHANGED <<part, vars, clientVars, brokerVars>>
InBroker(A) ==
    part = "broker" /\ A /\ UNCHANGED <<part, vars, clientVars, consumerVars>>

NextAll ==
    \/ InBreaker(Next)
    \/ InClient(Client!Next) \/ InRacing(Racing!Next)
    \/ InSharing(Sharing) \/ InReading(Reading)
    \/ InBroker(BrokerNext)

SpecAll == InitAll /\ [][NextAll]_allVars

-----------------------------------------------------------------------------
(***************************************************************************)
(* However the refreshes of two goroutines and Close interleave, seedBroker *)
(* is a connection to the first of the addresses left, there is none only  *)
(* when they are used up, and no address given to NewClient is ever lost;  *)
(* and the cached partition lists of an open client are those of its       *)
(* metadata ("it is important to update this value whenever metadata is    *)
(* changed", client.go).                                                   *)
(***************************************************************************)
ClientAgrees == Client!SeedIsFirst /\ Client!AddressesKept /\ Client!CacheAgrees
=============================================================================
