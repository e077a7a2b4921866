---------------------------- MODULE TelnetOption ----------------------------
(***************************************************************************)
(* One telnet option in one direction, negotiated between the end that     *)
(* would perform it and the end that would let it: the state machine of    *)
(* telnet/telnet.c and telnetd/state.c at both ends of a TCP connection.   *)
(* Both ends may ask at any time, for what they would refuse themselves    *)
(* too, so requests cross, answers are taken for requests and requests for *)
(* answers; the machine has to end the exchange, and with both ends of one *)
(* mind.                                                                   *)
(***************************************************************************)
EXTENDS OptionHalf, Sequences

CONSTANTS
    MaxAsks     \* bound: the requests of one end

ASSUME AsksAssumption == MaxAsks \in Nat

VARIABLES
    half,       \* [Ends -> what the end keeps of the option]
    wire,       \* [Ends -> commands on their way to the end]
    asks,       \* [Ends -> how often the end has asked for a change]
    refused,    \* history: the ends whose last refusal is not confirmed
    overtaken,  \* history: an end has asked while its refusal was not confirmed
    lone        \* history: the request made when nothing was under way, while
                \* no other request has followed it and it is not refused

vars == <<half, wire, asks, refused, overtaken, lone>>

Ends == {"performer", "requester"}

Other(e) == CHOOSE x \in Ends : x # e

TypeOK ==
    /\ half \in [Ends -> Half]
    /\ wire \in [Ends -> Seq(BOOLEAN)]
    /\ asks \in [Ends -> 0 .. MaxAsks]
    /\ refused \subseteq Ends
    /\ overtaken \in BOOLEAN
    /\ lone \subseteq Ends \X BOOLEAN

Init ==
    /\ half = [e \in Ends |-> Idle]
    /\ wire = [e \in Ends |-> << >>]
    /\ asks = [e \in Ends |-> 0]
    /\ refused = {}
    /\ overtaken = FALSE
    /\ lone = {}

Quiet == \A e \in Ends : wire[e] = << >>

Send(e, new) == wire' = [wire EXCEPT ![Other(e)] = Append(@, new)]

\* send_will (c, 1), send_wont (c, 1), send_do (c, 1), send_dont (c, 1): at
\* the start, in answer to another option or because the user says so, and
\* whether or not the end would agree if it were asked.
Ask(e, new) ==
    /\ asks[e] < MaxAsks
    /\ ~Needless(half[e], new)
    /\ half' = [half EXCEPT ![e] = Asked(@, new)]
    /\ Send(e, new)
    /\ asks' = [asks EXCEPT ![e] = @ + 1]
    /\ overtaken' = (overtaken \/ e \in refused)
    /\ lone' = IF Quiet THEN {<<e, new>>} ELSE {}
    /\ UNCHANGED refused

\* The command is a request for the option, and the end does not agree.
Refuses(h, new, agree) == new /\ ~agree /\ IsRequest(Answered(h, new), new)

\* What a command leaves behind at the end it reaches.
Outcome(h, new, agree) ==
    LET now == Answered(h, new) IN
    Settled(IF ~IsRequest(now, new) THEN now
            ELSE IF Refuses(h, new, agree) THEN Refused(now)
            ELSE Accepted(now, new), new)

\* Mutant of Replies: every command is answered.
RepliesAlways(h, new) == TRUE

\* An answer to WILL or DO always goes out, one to WONT or DONT only if the
\* option was on as far as this end knows.
Replies(h, new) == IsRequest(Answered(h, new), new) /\ (new \/ h.state)

\* The ends whose refusal stands unconfirmed: a refusal counts as a request,
\* and is confirmed by what takes the counter back to zero.
StillRefused(e, h, new, agree) ==
    IF Refuses(h, new, agree) THEN refused \cup {e}
    ELSE IF Answered(h, new).resp = 0 THEN refused \ {e}
    ELSE refused

\* willoption, wontoption, dooption, dontoption: what is agreed to depends on
\* the option and the moment.
Receive(e, agree) ==
    /\ wire[e] # << >>
    /\ LET new == Head(wire[e])
           h == Outcome(half[e], new, agree)
           no == Refuses(half[e], new, agree) IN
       /\ half' = [half EXCEPT ![e] = h]
       /\ wire' = [wire EXCEPT ![e] = Tail(@),
                       ![Other(e)] = IF Replies(half[e], new)
                                     THEN Append(@, h.want) ELSE @]
       /\ refused' = StillRefused(e, half[e], new, agree)
       /\ lone' = IF no THEN {} ELSE lone
    /\ UNCHANGED <<asks, overtaken>>

Next == \E e \in Ends, b \in BOOLEAN : Ask(e, b) \/ Receive(e, b)

Spec == Init /\ [][Next]_vars

\* TCP delivers, and both programs read what has arrived (Scheduler, telrcv).
Fairness == \A e \in Ends : WF_vars(\E agree \in BOOLEAN : Receive(e, agree))

FairSpec == Spec /\ Fairness

-----------------------------------------------------------------------------
(* Properties.                                                             *)

\* When nothing is under way both ends want the same, whatever crossed on
\* the way (willoption, wontoption, dooption, dontoption), as long as no end
\* has asked for what it had just refused.
OfOneMind == Quiet /\ ~overtaken => half["performer"].want = half["requester"].want

\* As documented (telnet.c:217, "we send the negotiation if either side is in
\* disagreement as to what the current state should be"): when nothing is
\* under way both ends want the same.
NoDisagreement == Quiet => half["performer"].want = half["requester"].want

\* When nothing is under way nobody waits for an answer, except an end that
\* has refused: its refusal stays counted as a request, and the option stays
\* on as far as it knows, for the other end confirms no refusal.
NoneForgotten ==
    Quiet /\ ~overtaken => \A e \in Ends :
        \/ half[e].resp = 0 /\ ~Changing(half[e])
        \/ e \in refused /\ half[e] = [state |-> TRUE, want |-> FALSE, resp |-> 1]

\* A request that is made when nothing is under way and followed by no other
\* is granted, unless it is refused: what earlier exchanges have left in a
\* counter never swallows it.
Granted == Quiet /\ ~overtaken =>
    \A r \in lone, e \in Ends : half[e].want = r[2]

\* The counters are of type char: each is at most what this end has asked
\* for, and one refusal.
CountsRequests == \A e \in Ends : half[e].resp <= asks[e] + 1

\* The ends stop answering each other.
ComesToRest == <>[]Quiet
=============================================================================
