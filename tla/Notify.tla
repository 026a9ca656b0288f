------------------------------- MODULE Notify -------------------------------
(***************************************************************************)
(* notify/: a summary of the published report is sent to every enabled     *)
(* channel, in parts that respect the channel's limit, each part posted    *)
(* again after a transient failure.  The summary is the sequence of its    *)
(* risk lines, of which only the sizes matter; what every part repeats     *)
(* (the head, the link) has the size Frame.                                *)
(***************************************************************************)
EXTENDS Naturals, Sequences, SequencesExt

CONSTANTS
    Channels,       \* the enabled channels, sorted
    Limit,          \* per channel: the largest message
    Frame,
    MaxAttempts     \* max_attempts

ASSUME ChannelType == \A i, j \in DOMAIN Channels : Channels[i] = Channels[j] => i = j
ASSUME NumberTypes == Frame \in Nat /\ MaxAttempts \in Nat \ {0}

Channel == {Channels[i] : i \in DOMAIN Channels}

ASSUME ChannelsType == Channels \in Seq(Channel)

VARIABLES
    sending,        \* the step of send_report()
    summary,        \* the sizes of the risk lines
    turn,           \* the position of the channel in Channels
    message,        \* the parts of its message
    part,           \* the one being posted
    attempt,        \* of that part
    chat,           \* per channel: the parts that arrived, in order
    outcome         \* per channel: what became of it

notifyVars == <<sending, summary, turn, message, part, attempt, chat, outcome>>

Nobody == [ch \in Channel |-> <<>>]

Untried == [ch \in Channel |-> "open"]

NotifyInit ==
    /\ sending = "idle"
    /\ summary = <<>>
    /\ turn = 1 /\ message = <<>> /\ part = 1 /\ attempt = 1
    /\ chat = Nobody
    /\ outcome = Untried
----------------------------------------------------------------------------
(* build_payloads() *)

Size(chunk) == Frame + FoldLeft(+, 0, [i \in DOMAIN chunk |-> chunk[i].size])

\* "none" stands in for the risks when there are none.
RiskLines(sizes) ==
    IF sizes = <<>> THEN <<[line |-> 0, size |-> 1]>>
    ELSE [i \in DOMAIN sizes |-> [line |-> i, size |-> sizes[i]]]

\* A line that does not fit starts the next part.
Pack(packed, line, limit) ==
    IF packed.current # <<>> /\ Size(Append(packed.current, line)) > limit
    THEN [chunks |-> Append(packed.chunks, packed.current), current |-> <<line>>]
    ELSE [packed EXCEPT !.current = Append(@, line)]

\* The first n lines in parts.
Packed(lines, limit) ==
    LET packed[n \in 0 .. Len(lines)] ==
            IF n = 0 THEN [chunks |-> <<>>, current |-> <<>>]
            ELSE Pack(packed[n - 1], lines[n], limit)
    IN  packed

Parts(sizes, limit) ==
    LET lines == RiskLines(sizes)
        last == Packed(lines, limit)[Len(lines)]
    IN  Append(last.chunks, last.current)

\* ValueError: a part exceeds the channel's limit, and none is posted.
TooLong(parts, limit) == \E k \in DOMAIN parts : Size(parts[k]) > limit
----------------------------------------------------------------------------
(* send_report() and send() *)

Now == Channels[turn]

\* Mutant: the first failure ends send().
FirstFailureEnds(result) ==
    /\ outcome' = [outcome EXCEPT ![Now] = result]
    /\ message' = <<>> /\ part' = 1 /\ attempt' = 1
    /\ IF turn = Len(Channels) \/ result = "failed" THEN sending' = "sent" /\ UNCHANGED turn
       ELSE sending' = "open" /\ turn' = turn + 1

\* The next channel, or the end of send().
NextChannel(result) ==
    /\ outcome' = [outcome EXCEPT ![Now] = result]
    /\ message' = <<>> /\ part' = 1 /\ attempt' = 1
    /\ IF turn = Len(Channels) THEN sending' = "sent" /\ UNCHANGED turn
       ELSE sending' = "open" /\ turn' = turn + 1

SendReport(sizes) ==
    /\ sending = "idle"
    /\ summary' = sizes
    /\ sending' = IF Channels = <<>> THEN "sent" ELSE "url"
    /\ UNCHANGED <<turn, message, part, attempt, chat, outcome>>

\* Without an absolute URL of the report nothing is posted.
InvalidUrl ==
    /\ sending = "url"
    /\ outcome' = [ch \in Channel |-> "failed"]
    /\ sending' = "sent"
    /\ UNCHANGED <<summary, turn, message, part, attempt, chat>>

ValidUrl ==
    /\ sending = "url"
    /\ sending' = "open"
    /\ UNCHANGED <<summary, turn, message, part, attempt, chat, outcome>>

\* The notifier cannot be made (no webhook in the environment), or its message not.
CannotOpen ==
    /\ sending = "open"
    /\ NextChannel("failed")
    /\ UNCHANGED <<summary, chat>>

Open ==
    /\ sending = "open"
    /\ message' = Parts(summary, Limit[Now])
    /\ ~TooLong(message', Limit[Now])
    /\ sending' = "post"
    /\ UNCHANGED <<summary, turn, part, attempt, chat, outcome>>
----------------------------------------------------------------------------
(* post_json(), and what the webhook does with one request *)

Arrives(arrived) ==
    chat' = IF arrived THEN [chat EXCEPT ![Now] = Append(@, part)] ELSE chat

\* Accepted, and the answer says so.
Delivered ==
    /\ sending = "post"
    /\ Arrives(TRUE)
    /\ IF part = Len(message) THEN NextChannel("delivered")
       ELSE part' = part + 1 /\ attempt' = 1 /\ UNCHANGED <<sending, turn, message, outcome>>
    /\ UNCHANGED summary

\* Mutant: a part that could not be delivered does not stop the ones after it.
GiveUpPart ==
    IF part = Len(message) THEN NextChannel("delivered")
    ELSE part' = part + 1 /\ attempt' = 1 /\ UNCHANGED <<sending, turn, message, outcome>>

\* The channel fails, whatever of it has arrived.
GiveUp == NextChannel("failed")

\* After the pause of sleep().
TryAgain ==
    /\ attempt' = attempt + 1 /\ UNCHANGED <<sending, turn, message, part, outcome>>

\* No answer in time, one that is no answer, or a status that is worth a retry;
\* the message may have arrived all the same.
TransientFailure(arrived) ==
    /\ sending = "post"
    /\ Arrives(arrived)
    /\ IF attempt < MaxAttempts THEN TryAgain ELSE GiveUp
    /\ UNCHANGED summary

\* A refusal, or a connection that breaks while the answer is read.
PermanentFailure(arrived) ==
    /\ sending = "post"
    /\ Arrives(arrived)
    /\ GiveUp
    /\ UNCHANGED summary

\* send_report() returns, or raises NotificationDeliveryError.
Failed == \E ch \in Channel : outcome[ch] = "failed"

\* What one sending knew, and what arrived by it, is forgotten with it.
EndSending ==
    /\ sending' = "idle"
    /\ summary' = <<>>
    /\ turn' = 1 /\ message' = <<>> /\ part' = 1 /\ attempt' = 1
    /\ chat' = Nobody
    /\ outcome' = Untried

NotifyNext ==
    \/ InvalidUrl \/ ValidUrl
    \/ CannotOpen \/ Open
    \/ Delivered
    \/ \E arrived \in BOOLEAN : TransientFailure(arrived) \/ PermanentFailure(arrived)
=============================================================================
