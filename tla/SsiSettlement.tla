--------------------------- MODULE SsiSettlement ----------------------------
(***************************************************************************)
(* SsiTransactionResultConsumer: the results of blockchain transactions    *)
(* arrive on a RabbitMQ queue, and each item of a result settles one       *)
(* credit reservation: a command to commit it or to roll it back is queued *)
(* for the credit SDK of the SSI service.                                  *)
(*                                                                         *)
(* Up to ten messages are handled at once.  A message is acknowledged      *)
(* after its last item, or put back when an item fails.  When the channel  *)
(* breaks, the broker delivers every unacknowledged message again, while   *)
(* the handlers of the old deliveries are still running.                   *)
(***************************************************************************)
EXTENDS Integers, Sequences

CONSTANTS
    Slots,          \* the messages handled at once (prefetch)
    Messages,       \* the results published
    Result,         \* Result[m]: the status and the reservations of a message
    Reservations,   \* the credit reservations
    None,           \* no message
    MaxFailures     \* bound: failed commands, broken channels, dead processes

ASSUME SettlementAssumption ==
    /\ Result \in [Messages -> [status : {"SUCCEEDED", "FAILED", "UNKNOWN",
                                          "INVALID"},
                                items : Seq(Reservations)]]
    /\ \A m \in Messages : Len(Result[m].items) > 0
    /\ None \notin Messages
    /\ MaxFailures \in Nat

VARIABLES
    published,  \* the messages the producer has published
    ready,      \* broker: messages waiting to be delivered
    unacked,    \* broker: slot |-> the message delivered to it, None if none
    acked,      \* broker: messages acknowledged
    settling,   \* slot |-> the message its handler works on
    next,       \* slot |-> the item it settles next
    commands,   \* the commands queued: reservation and outcome
    failures    \* how much has gone wrong so far

broker == <<published, ready, unacked, acked>>
settlementVars == <<broker, settling, next, commands, failures>>

Outcomes == {"commit", "rollback"}

SettlementTypeOK ==
    /\ published \subseteq Messages
    /\ ready \subseteq Messages
    /\ unacked \in [Slots -> Messages \cup {None}]
    /\ acked \subseteq Messages
    /\ settling \in [Slots -> Messages \cup {None}]
    /\ next \in [Slots -> Nat]
    /\ commands \subseteq [reservation : Reservations, outcome : Outcomes]
    /\ failures \in 0..MaxFailures

SettlementInit ==
    /\ published = {}
    /\ ready = {}
    /\ unacked = [s \in Slots |-> None]
    /\ acked = {}
    /\ settling = [s \in Slots |-> None]
    /\ next = [s \in Slots |-> 0]
    /\ commands = {}
    /\ failures = 0

-----------------------------------------------------------------------------

Items(m) == Result[m].items

\* The messages that settle reservations; the others are only acknowledged.
Terminal(m) == Result[m].status \in {"SUCCEEDED", "FAILED"}

Command(m, i) == [reservation |-> Items(m)[i],
                  outcome |-> IF Result[m].status = "SUCCEEDED"
                              THEN "commit" ELSE "rollback"]

Commands(m) == {Command(m, i) : i \in DOMAIN Items(m)}

Finish(s) == /\ settling' = [settling EXCEPT ![s] = None]
             /\ next' = [next EXCEPT ![s] = 0]

\* An answer of the handler in s counts only for the delivery it was made for.
Acknowledge(s) ==
    /\ acked' = IF unacked[s] = None THEN acked ELSE acked \cup {unacked[s]}
    /\ unacked' = [unacked EXCEPT ![s] = None]

Publish(m) ==
    /\ m \notin published
    /\ published' = published \cup {m}
    /\ ready' = ready \cup {m}
    /\ UNCHANGED <<unacked, acked, settling, next, commands, failures>>

Deliver(s, m) ==
    /\ settling[s] = None
    /\ m \in ready
    /\ ready' = ready \ {m}
    /\ unacked' = [unacked EXCEPT ![s] = m]
    /\ settling' = [settling EXCEPT ![s] = m]
    /\ next' = [next EXCEPT ![s] = 1]
    /\ UNCHANGED <<published, acked, commands, failures>>

\* Mutant: the message is acknowledged as soon as its first item is settled.
Mutant_AckFirst(s) ==
    LET m == settling[s] IN
    /\ m # None /\ Terminal(m)
    /\ next[s] <= Len(Items(m))
    /\ commands' = commands \cup {Command(m, next[s])}
    /\ next' = [next EXCEPT ![s] = @ + 1]
    /\ Acknowledge(s)
    /\ UNCHANGED <<published, ready, settling, failures>>

\* settleSsiTransaction for the next item.
Settle(s) ==
    LET m == settling[s] IN
    /\ m # None /\ Terminal(m)
    /\ next[s] <= Len(Items(m))
    /\ commands' = commands \cup {Command(m, next[s])}
    /\ next' = [next EXCEPT ![s] = @ + 1]
    /\ UNCHANGED <<broker, settling, failures>>

\* An UNKNOWN or invalid result is acknowledged and settles nothing.
Ack(s) ==
    LET m == settling[s] IN
    /\ m # None
    /\ Terminal(m) => next[s] > Len(Items(m))
    /\ Acknowledge(s)
    /\ Finish(s)
    /\ UNCHANGED <<published, ready, commands, failures>>

\* Mutant: nack without requeue.
Mutant_NackDrops(s) ==
    LET m == settling[s] IN
    /\ m # None /\ Terminal(m)
    /\ next[s] <= Len(Items(m))
    /\ failures < MaxFailures
    /\ failures' = failures + 1
    /\ commands' \in {commands, commands \cup {Command(m, next[s])}}
    /\ unacked' = [unacked EXCEPT ![s] = None]
    /\ Finish(s)
    /\ UNCHANGED <<published, ready, acked>>

\* Queueing a command fails, though it may have been queued: the whole message
\* is put back.
Nack(s) ==
    LET m == settling[s] IN
    /\ m # None /\ Terminal(m)
    /\ next[s] <= Len(Items(m))
    /\ failures < MaxFailures
    /\ failures' = failures + 1
    /\ commands' \in {commands, commands \cup {Command(m, next[s])}}
    /\ ready' = IF unacked[s] = None THEN ready ELSE ready \cup {unacked[s]}
    /\ unacked' = [unacked EXCEPT ![s] = None]
    /\ Finish(s)
    /\ UNCHANGED <<published, acked>>

Requeue == /\ ready' = ready \cup ({unacked[s] : s \in Slots} \ {None})
           /\ unacked' = [s \in Slots |-> None]
           /\ UNCHANGED <<published, acked>>

\* The channel breaks and is set up again; the handlers do not notice.
ChannelBreaks ==
    /\ failures < MaxFailures
    /\ \E s \in Slots : unacked[s] # None
    /\ failures' = failures + 1
    /\ Requeue
    /\ UNCHANGED <<settling, next, commands>>

ProcessDies ==
    /\ failures < MaxFailures
    /\ \E s \in Slots : settling[s] # None
    /\ failures' = failures + 1
    /\ Requeue
    /\ settling' = [s \in Slots |-> None]
    /\ next' = [s \in Slots |-> 0]
    /\ UNCHANGED commands

Consume(s) == Settle(s) \/ Ack(s)

SettlementNext ==
    \/ \E m \in Messages : Publish(m)
    \/ \E s \in Slots : \/ Consume(s) \/ Nack(s)
                        \/ \E m \in Messages : Deliver(s, m)
    \/ ChannelBreaks
    \/ ProcessDies

SettlementSpec == SettlementInit /\ [][SettlementNext]_settlementVars

\* The broker delivers and the handlers go on; nothing has to go wrong.
FairSettlement ==
    /\ SettlementSpec
    /\ \A s \in Slots : WF_settlementVars(Consume(s))
    /\ \A m \in Messages :
           SF_settlementVars(\E s \in Slots : Deliver(s, m))

-----------------------------------------------------------------------------
(* Properties.                                                             *)

\* A terminal result is acknowledged only when every reservation in it has its
\* command, also when items failed, the channel broke or the process died
\* halfway and two handlers worked on it at once.
AckedIsSettled ==
    \A m \in acked : Terminal(m) => Commands(m) \subseteq commands

\* No published result is lost: it waits, is out for delivery, or was
\* acknowledged.
NothingLost ==
    published = ready \cup acked \cup ({unacked[s] : s \in Slots} \ {None})

\* "Unknown outcomes must be reconciled rather than committed or rolled back":
\* whatever is retried or delivered twice, a reservation is only committed
\* after a published success and rolled back after a published failure.
SettledAsReported ==
    \A cmd \in commands : \E m \in published :
        /\ \E i \in DOMAIN Result[m].items :
              Result[m].items[i] = cmd.reservation
        /\ Result[m].status = IF cmd.outcome = "commit" THEN "SUCCEEDED"
                                                       ELSE "FAILED"

\* Every terminal result settles its reservations.
ResultsSettle ==
    \A m \in Messages :
        m \in published /\ Terminal(m) ~> Commands(m) \subseteq commands
=============================================================================
