----------------------------- MODULE OptionHalf -----------------------------
(***************************************************************************)
(* What telnet and telnetd keep of one option in one direction: the half   *)
(* of options[] that says what this end performs (will/wont) or the half   *)
(* that says what it lets the other end perform (do/dont).  Both programs  *)
(* run the same machine on it, once in telnet/telnet.c and once in         *)
(* telnetd/state.c; TRUE stands for WILL and DO, FALSE for WONT and DONT.  *)
(***************************************************************************)
EXTENDS Naturals

\* state: MY_STATE_x, what the other end last said; want: MY_WANT_STATE_x,
\* what this end has settled on; resp: will_wont_resp or do_dont_resp, the
\* requests of this end that are still to be answered.
Half == [state: BOOLEAN, want: BOOLEAN, resp: Nat]

Idle == [state |-> FALSE, want |-> FALSE, resp |-> 0]

\* The early return of send_do (c, 1) and its three sisters.
Needless(h, new) == (h.resp = 0 /\ h.state = new) \/ h.want = new

\* send_do (c, 1) and its sisters, when they do send.
Asked(h, new) == [state |-> h.state, want |-> new, resp |-> h.resp + 1]

\* Mutants of Answered: one command answers one request; resp
\* is not tested.
AnsweredOnce(h, new) == [h EXCEPT !.resp = IF @ = 0 THEN 0 ELSE @ - 1]
AnsweredAnyway(h, new) == [h EXCEPT !.resp = @ - 1]

\* A command has arrived: it may answer one request of this end, or two.
Answered(h, new) ==
    LET one == h.resp - 1 IN
    [h EXCEPT !.resp = IF @ = 0 THEN 0
                       ELSE IF one > 0 /\ h.state = new THEN one - 1
                       ELSE one]

\* With nothing of its own outstanding, a command that differs from what the
\* end wants is a request of the other end.
IsRequest(h, new) == h.resp = 0 /\ h.want # new

Accepted(h, new) == [h EXCEPT !.want = new]
Refused(h) == [h EXCEPT !.resp = @ + 1]
Settled(h, new) == [h EXCEPT !.state = new]

\* my_will_wont_is_changing, my_do_dont_is_changing
Changing(h) == h.state # h.want
=============================================================================
