------------------------------- MODULE Services ------------------------------
(***************************************************************************)
(* The service tasks and the pool of packet buffers they share: the        *)
(* command line with its interpreter, the services that answer a packet in *)
(* place (update, communication), and the server that answers pings.       *)
(*                                                                         *)
(* CSP is external: it takes a buffer of the pool for a packet that        *)
(* arrives, refuses to free a free buffer, frees a packet after it is sent *)
(* and leaves it to the caller if it cannot be sent.                       *)
(***************************************************************************)
EXTENDS CommandInterpreter

CONSTANTS
    Buffers,    \* the pool
    NoBuffer,   \* NULL
    Plain,      \* the services that answer in place
    Lines,      \* the command lines that arrive
    MaxPackets  \* bound: packets that arrive between two starts

ASSUME ServicesAssumption ==
    NoBuffer \notin Buffers /\ MaxPackets \in Nat /\ \A l \in Lines : IsLine(l)

Tasks == Plain \cup {"cli", "csp_server"}

VARIABLES
    free,       \* the buffers in the pool
    out,        \* the buffers CSP has to send
    queue,      \* the packets that wait in the connection of each task
    pc,         \* where each task is
    packet,     \* the packet it works on
    original,   \* the clone cli_app keeps
    line,       \* the command line in work
    state,      \* the static variables of the interpreter
    result,     \* what the interpreter said last
    replies,    \* history: what was answered to this line so far
    stolen,     \* history: the second free of cli_service took a buffer in use
    arrived     \* packets that have arrived

pool == <<free, out, queue>>
cli == <<original, line, state, result, replies>>
history == <<stolen, arrived>>
vars == <<pool, pc, packet, cli, history>>

NoResult == [out |-> "", more |-> FALSE]

Init ==
    /\ free = Buffers /\ out = {} /\ queue = [t \in Tasks |-> <<>>]
    /\ pc = [t \in Tasks |-> "read"] /\ packet = [t \in Tasks |-> NoBuffer]
    /\ original = NoBuffer /\ line = <<>> /\ state = AtRest /\ result = NoResult /\ replies = <<>>
    /\ stolen = FALSE /\ arrived = 0

Goto(t, l) == pc' = [pc EXCEPT ![t] = l]

\* csp_buffer_free: of NULL and of a free buffer nothing is freed.
Freed(bs) == free \cup (bs \ {NoBuffer})

-----------------------------------------------------------------------------
(* CSP                                                                     *)

Arrive(t) ==
    /\ arrived < MaxPackets /\ arrived' = arrived + 1
    /\ \E b \in free :
          /\ free' = free \ {b}
          /\ queue' = [queue EXCEPT ![t] = Append(@, b)]
    /\ UNCHANGED <<out, pc, packet, cli, stolen>>

Sent(b) ==
    /\ b \in out
    /\ out' = out \ {b} /\ free' = Freed({b})
    /\ UNCHANGED <<queue, pc, packet, cli, history>>

\* csp_close after a read that timed out: what came since is dropped.
Close(t) ==
    /\ pc[t] = "read"
    /\ queue[t] # <<>>
    /\ free' = Freed({queue[t][i] : i \in DOMAIN queue[t]})
    /\ queue' = [queue EXCEPT ![t] = <<>>]
    /\ UNCHANGED <<out, pc, packet, cli, history>>

\* csp_read.
Read(t) ==
    /\ pc[t] = "read" /\ queue[t] # <<>>
    /\ packet' = [packet EXCEPT ![t] = Head(queue[t])]
    /\ queue' = [queue EXCEPT ![t] = Tail(@)]
    /\ UNCHANGED <<free, out, history>>

Finish(t) == packet' = [packet EXCEPT ![t] = NoBuffer] /\ Goto(t, "read")

-----------------------------------------------------------------------------
(* updater_service, communication_service, csp_server                      *)

Take(t) == t # "cli" /\ Read(t) /\ Goto(t, "answer") /\ UNCHANGED cli

\* Mutated form: a packet that could not be sent is forgotten.
AnswerForgets(t) ==
    /\ pc[t] = "answer"
    /\ \/ out' = out \cup {packet[t]} /\ UNCHANGED free
       \/ UNCHANGED <<free, out>>
    /\ Finish(t)
    /\ UNCHANGED <<queue, cli, history>>

\* The reply is sent; or the application or csp_send failed, and the packet is
\* freed.  csp_service_handler does one of the two as well.
AnswerPacket(t) ==
    /\ pc[t] = "answer"
    /\ \/ out' = out \cup {packet[t]} /\ UNCHANGED free
       \/ free' = Freed({packet[t]}) /\ UNCHANGED out
    /\ Finish(t)
    /\ UNCHANGED <<queue, cli, history>>

-----------------------------------------------------------------------------
(* cli_service and cli_app                                                 *)

CliRead ==
    /\ Read("cli") /\ line' \in Lines /\ replies' = <<>>
    /\ Goto("cli", "clone")
    /\ UNCHANGED <<original, state, result>>

\* Mutated form: the clone is worked on and the packet kept.
CliCloneSwaps ==
    /\ pc["cli"] = "clone"
    /\ original' = packet["cli"]
    /\ \/ \E b \in free : packet' = [packet EXCEPT !["cli"] = b] /\ free' = free \ {b}
       \/ free = {} /\ packet' = [packet EXCEPT !["cli"] = NoBuffer] /\ UNCHANGED free
    /\ Goto("cli", "process")
    /\ UNCHANGED <<out, queue, line, state, result, replies, history>>

\* csp_buffer_clone: NULL if there is nothing to clone or the pool is empty.
CliClone ==
    /\ pc["cli"] = "clone"
    /\ \/ \E b \in free : original' = b /\ free' = free \ {b}
       \/ free = {} /\ original' = NoBuffer /\ UNCHANGED free
    /\ Goto("cli", "process")
    /\ UNCHANGED <<out, queue, packet, line, state, result, replies, history>>

Call ==
    LET r == ProcessCommand(state, line) IN
    /\ state' = r.state /\ result' = [out |-> r.out, more |-> r.more]

CliProcess ==
    /\ pc["cli"] = "process" /\ packet["cli"] # NoBuffer
    /\ Call /\ replies' = Append(replies, result'.out)
    /\ Goto("cli", "send")
    /\ UNCHANGED <<pool, packet, original, line, history>>

CliSend ==
    /\ pc["cli"] = "send"
    /\ \/ /\ out' = out \cup {packet["cli"]}
          /\ Goto("cli", IF result.more THEN "next" ELSE "done")
          /\ packet' = [packet EXCEPT !["cli"] = NoBuffer]
       \/ /\ Goto("cli", IF result.more THEN "drain" ELSE "failed")
          /\ UNCHANGED <<out, packet>>
    /\ UNCHANGED <<free, queue, cli, history>>

CliNext ==
    /\ pc["cli"] = "next"
    /\ \/ \E b \in free : original # NoBuffer /\ packet' = [packet EXCEPT !["cli"] = b] /\ free' = free \ {b}
       \/ (free = {} \/ original = NoBuffer) /\ UNCHANGED <<packet, free>>
    /\ Goto("cli", "process")
    /\ UNCHANGED <<out, queue, cli, history>>

\* Mutated form: the original is not freed.
CliDoneForgets ==
    /\ pc["cli"] = "done"
    /\ original' = NoBuffer /\ Goto("cli", "read")
    /\ UNCHANGED <<pool, packet, line, state, result, replies, history>>

CliDone ==
    /\ pc["cli"] = "done"
    /\ free' = Freed({original}) /\ original' = NoBuffer
    /\ Goto("cli", "read")
    /\ UNCHANGED <<out, queue, packet, line, state, result, replies, history>>

\* Mutated form: the command is left where it is.
CliDrainNothing ==
    /\ pc["cli"] = "drain"
    /\ Goto("cli", "failed")
    /\ UNCHANGED <<pool, packet, cli, history>>

\* The send failed: the command is run until it is in its initial state, ...
CliDrain ==
    /\ pc["cli"] = "drain"
    /\ Call
    /\ IF result'.more THEN UNCHANGED pc ELSE Goto("cli", "failed")
    /\ UNCHANGED <<pool, packet, original, line, replies, history>>

\* ... cli_app frees both buffers and returns an error, ...
CliFailed ==
    /\ pc["cli"] = "failed"
    /\ free' = Freed({original, packet["cli"]}) /\ original' = NoBuffer
    /\ Goto("cli", "again")
    /\ UNCHANGED <<out, queue, packet, line, state, result, replies, history>>

\* ... and cli_service frees the packet a second time.
CliFreeAgain ==
    /\ pc["cli"] = "again"
    /\ free' = Freed({packet["cli"]})
    /\ stolen' = (stolen \/ packet["cli"] \notin free)
    /\ Finish("cli")
    /\ UNCHANGED <<out, queue, cli, arrived>>

\* The reply is written through NULL: a data abort, and a start.
DataAbort ==
    /\ pc["cli"] = "process" /\ packet["cli"] = NoBuffer
    /\ free' = Buffers /\ out' = {} /\ queue' = [t \in Tasks |-> <<>>]
    /\ pc' = [t \in Tasks |-> "read"] /\ packet' = [t \in Tasks |-> NoBuffer]
    /\ original' = NoBuffer /\ line' = <<>> /\ state' = AtRest /\ result' = NoResult /\ replies' = <<>>
    /\ stolen' = FALSE /\ UNCHANGED arrived

-----------------------------------------------------------------------------
CliStep ==
    \/ CliRead \/ CliClone \/ CliProcess \/ CliSend \/ CliNext \/ CliDone
    \/ CliDrain \/ CliFailed \/ CliFreeAgain \/ DataAbort

TaskStep(t) == IF t = "cli" THEN CliStep ELSE Take(t) \/ AnswerPacket(t)

Next ==
    \/ CliStep
    \/ \E t \in Tasks : Arrive(t) \/ Close(t) \/ Take(t) \/ AnswerPacket(t)
    \/ \E b \in Buffers : Sent(b)

\* Each task is scheduled, and CSP sends what it took.
Fairness ==
    /\ \A t \in Tasks : WF_vars(TaskStep(t))
    /\ \A b \in Buffers : WF_vars(Sent(b))

Spec == Init /\ [][Next]_vars /\ Fairness
-----------------------------------------------------------------------------
\* The places at which a buffer is.
Waiting == {w \in Tasks \X (1 .. MaxPackets) : w[2] \in DOMAIN queue[w[1]]}
Places(b) ==
    (IF b \in free THEN 1 ELSE 0) + (IF b \in out THEN 1 ELSE 0)
    + (IF b = original THEN 1 ELSE 0)
    + Cardinality({t \in Tasks : packet[t] = b /\ ~(t = "cli" /\ pc[t] = "again")})
    + Cardinality({w \in Waiting : queue[w[1]][w[2]] = b})

\* Each buffer is in the pool or has one owner, whichever sends and clones
\* fail: none is lost, and none is given to two, until the second free of
\* cli_service meets a buffer that somebody has taken in between.
OneOwner == stolen \/ \A b \in Buffers : Places(b) = 1

\* Between two commands the static variables are in their initial state, also
\* when a command was given up half way because its reply could not be sent
\* (bl_cli.c:359-360).
InterpreterAtRest == pc["cli"] \in {"read", "clone", "failed", "again"} => state = AtRest

\* The replies to a line are the answer to that line and to no other, in order
\* and from the start, and the last one is marked as the last.
RepliesRight ==
    LET n == Len(replies) IN
    pc["cli"] \in {"send", "next", "done"} =>
        /\ replies = SubSeq(Answer(line), 1, n)
        /\ result.more <=> n < Len(Answer(line))

\* An empty pool harms no command that is answered with one packet: what the
\* clone is for is only needed for the second reply (bl_cli.c:346).
ExhaustionHitsLongAnswers ==
    pc["cli"] = "process" /\ packet["cli"] = NoBuffer =>
        Len(Answer(line)) > 1 /\ Len(replies) > 0

\* All buffers come back to the pool when no more packets arrive, even if one
\* was freed twice: no command goes on for ever, no packet is forgotten.
PoolRecovers == <>[](free = Buffers)

=============================================================================
