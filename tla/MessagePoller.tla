---------------------------- MODULE MessagePoller ----------------------------
(***************************************************************************)
(* NativeBaleSidecar of shared/src/bale/native-sidecar.ts: it polls the    *)
(* dialogs of the account and hands every new message to the dispatcher,   *)
(* which finds the offers of calls among them.  Bale's history is ordered  *)
(* by date alone and several messages may have one date, so a dialog has a *)
(* watermark: a date and the ids already seen at that date.                *)
(*                                                                         *)
(* The server listens to the update stream as well (CallWatcher).  Names   *)
(* that both modules need have the prefix of this one, so that a module    *)
(* can be about both.                                                      *)
(***************************************************************************)
EXTENDS Integers, FiniteSets, Sequences, Functions

CONSTANTS
  Peers,        \* the other accounts
  Emptied,      \* those whose dialog is listed even with no message in it
  Unloadable,   \* those whose history can never be loaded
  Ahead,        \* bound: by how much the local clock may be past Bale's last message
  Page,         \* HISTORY_PAGE_LIMIT
  Listed,       \* the number of dialogs asked for
  MaxMessages,  \* bound: messages of each dialog
  MaxOwn        \* bound: those of them that are one's own

ASSUME PollerAssumption ==
  /\ IsFiniteSet(Peers) /\ Emptied \subseteq Peers /\ Unloadable \subseteq Peers
  /\ Ahead \in Nat
  /\ Page \in Nat \ {0} /\ Listed \in Nat \ {0}
  /\ MaxMessages \in [Peers -> Nat] /\ MaxOwn \in Nat

VARIABLES
  sent,       \* messages of each dialog, as Bale has them
  clock,      \* Bale's clock
  walk,       \* dialogs of this poll still to be looked at, as they were listed;
              \* the poll timer is set when there are none
  looked,     \* Bale has found the dialog empty that is being seeded
  mark,       \* watermark of each dialog: [date, ids, seeded]
  pollerClosed,
  handed,     \* messages of each dialog handed to the listeners, in order
  old,        \* what each dialog held when Bale answered the request that seeded it
  since       \* the local time when a dialog found empty was seeded, or 0

pollerVars == <<sent, clock, walk, looked, mark, pollerClosed, handed, old, since>>

-----------------------------------------------------------------------------
(* Bale *)

Dated(p, date) == {m \in sent[p] : m.date = date}

\* A message arrives in a dialog, with a random id: before or after the others of
\* its date.  Fewer messages share a date than fit a page.
Send(p, own, before, date) ==
  /\ Cardinality(sent[p]) < MaxMessages[p]
  /\ own => Cardinality({m \in sent[p] : m.own}) < MaxOwn
  /\ Cardinality(Dated(p, date)) < Page - 1
  /\ before => Dated(p, date) # {}
  /\ LET n == Cardinality(sent[p]) + 1 IN
     sent' = [sent EXCEPT ![p] = @ \cup {[id |-> IF before THEN -n ELSE n, date |-> date, own |-> own]}]
  /\ clock' = date
  /\ UNCHANGED <<walk, looked, mark, pollerClosed, handed, old, since>>

Newest(msgs) == {m \in msgs : \A o \in msgs : o.date <= m.date}

\* What a dialog shows: the date and sender of a newest message.
Shown(p) == IF sent[p] = {} THEN {[peer |-> p, date |-> 0, own |-> FALSE]}
            ELSE {[peer |-> p, date |-> m.date, own |-> m.own] : m \in Newest(sent[p])}

\* A list of dialogs: at most Listed, newest first.
Lists ==
  LET present == {p \in Peers : sent[p] # {} \/ p \in Emptied} IN
  {l \in UNION {[1..n -> UNION {Shown(p) : p \in present}] : n \in {Cardinality(present), Listed}} :
     /\ Len(l) <= Listed /\ IsInjective([i \in DOMAIN l |-> l[i].peer])
     /\ \A i, j \in DOMAIN l : i < j => l[i].date >= l[j].date
     /\ \A p \in present : \/ \E i \in DOMAIN l : l[i].peer = p
                           \/ \A i \in DOMAIN l, d \in Shown(p) : l[i].date >= d.date}

\* At most a page of msgs, such that none left out comes before one that is in.
Pages(msgs, Precedes(_, _)) ==
  {page \in SUBSET msgs :
     /\ Cardinality(page) = IF Cardinality(msgs) < Page THEN Cardinality(msgs) ELSE Page
     /\ \A m \in page, o \in msgs \ page : ~Precedes(o, m)}

-----------------------------------------------------------------------------
(* The poller *)

PollerInit ==
  /\ sent = [p \in Peers |-> {}] /\ clock = 1 /\ walk = <<>> /\ looked = FALSE
  /\ mark = [p \in Peers |-> [date |-> 0, ids |-> {}, seeded |-> FALSE]]
  /\ pollerClosed = FALSE /\ handed = [p \in Peers |-> <<>>] /\ old = [p \in Peers |-> {}]
  /\ since = [p \in Peers |-> 0]

\* The timer fires and the dialogs are listed.  A list that fails is a poll
\* that does nothing.
Poll ==
  /\ walk = <<>> /\ ~pollerClosed
  /\ UNCHANGED <<sent, clock, looked, mark, pollerClosed, handed, old, since>>
  /\ walk' \in Lists

GoOn == walk' = Tail(walk)

At(p, seeded) == walk # <<>> /\ Head(walk).peer = p /\ mark[p].seeded = seeded

\* seedPeerState: everything there is when Bale first looks is old.
Seed(p) ==
  /\ At(p, FALSE) /\ ~looked /\ p \notin Unloadable /\ sent[p] # {}
  /\ GoOn
  /\ UNCHANGED <<sent, clock, looked, pollerClosed, handed, since>>
  /\ \E page \in Pages(sent[p], LAMBDA o, m : o.date > m.date) :
       mark' = [mark EXCEPT ![p] =
         [date |-> (CHOOSE m \in Newest(page) : TRUE).date,
          ids |-> {m.id : m \in Newest(page)}, seeded |-> TRUE]]
  /\ old' = [old EXCEPT ![p] = sent[p]]

\* Bale looks into a dialog and finds nothing ...
FoundEmpty(p) ==
  /\ At(p, FALSE) /\ ~looked /\ sent[p] = {}
  /\ looked' = TRUE
  /\ UNCHANGED <<sent, clock, walk, mark, pollerClosed, handed, old, since>>

\* ... and when its answer arrives the local clock is read.
SeedEmpty(p) ==
  /\ At(p, FALSE) /\ looked /\ p \notin Unloadable
  /\ looked' = FALSE /\ GoOn
  /\ \E now \in clock..(clock + Ahead) :
       /\ mark' = [mark EXCEPT ![p] = [date |-> now, ids |-> {}, seeded |-> TRUE]]
       /\ since' = [since EXCEPT ![p] = now]
  /\ UNCHANGED <<sent, clock, pollerClosed, handed, old>>

\* It is not in the inner try: when it fails, the rest of the poll is given up.
SeedFails(p) ==
  /\ At(p, FALSE) /\ (looked \/ sent[p] # {})
  /\ looked' = FALSE /\ walk' = <<>>
  /\ UNCHANGED <<sent, clock, mark, pollerClosed, handed, old, since>>

\* Mutant: a dialog that shows the date of the watermark is skipped, too.
NothingNewer(d) == d.own \/ d.date <= mark[d.peer].date

\* A dialog whose last message is one's own, or older than the watermark, is not looked into.
Uninteresting(d) == d.own \/ d.date < mark[d.peer].date

Skip(p) ==
  /\ At(p, TRUE) /\ Uninteresting(Head(walk))
  /\ GoOn
  /\ UNCHANGED <<sent, clock, looked, mark, pollerClosed, handed, old, since>>

\* Mutant: the history is asked for from the watermark, not from a tick before it.
FromMark(date) == date

\* historyOffsetFor: Bale answers with what is strictly newer.
Offset(date) == IF date > 0 THEN date - 1 ELSE date

\* Mutant: the ids at the watermark are not looked at.
FreshByDate(m, w) == m.date >= w.date

Fresh(m, w) == m.date >= w.date /\ ~(m.date = w.date /\ m.id \in w.ids)

\* The watermark after message m.
Moved(w, m) == [w EXCEPT !.date = m.date, !.ids = (IF m.date > w.date THEN {} ELSE @) \cup {m.id}]

\* The loop's body: the watermark (w) and what was handed on (out) after message m.
Taken(acc, m) ==
  IF ~Fresh(m, acc.w) THEN acc
  ELSE [w |-> Moved(acc.w, m), out |-> IF m.own THEN acc.out ELSE Append(acc.out, m)]

\* compareHistory
Before(a, b) == a.date < b.date \/ (a.date = b.date /\ a.id < b.id)

\* The page in this order.
Sorted(page) ==
  {s \in [1..Cardinality(page) -> page] :
     Range(s) = page /\ \A i, j \in DOMAIN s : i < j => Before(s[i], s[j])}

\* The loop: acc[n] after n messages of the sorted history s.
Absorbed(s, w, out) ==
  LET acc[n \in 0..Len(s)] ==
        IF n = 0 THEN [w |-> w, out |-> out] ELSE Taken(acc[n - 1], s[n])
  IN acc[Len(s)]

\* loadHistory, and the messages handed to the listeners: after close() too.
History(p) ==
  /\ At(p, TRUE) /\ ~Uninteresting(Head(walk)) /\ p \notin Unloadable
  /\ GoOn
  /\ UNCHANGED <<sent, clock, looked, pollerClosed, old, since>>
  /\ \E page \in Pages({m \in sent[p] : m.date > Offset(mark[p].date)}, LAMBDA o, m : o.date < m.date) :
       \E s \in Sorted(page) : \E done \in {Absorbed(s, mark[p], handed[p])} :
         mark' = [mark EXCEPT ![p] = done.w] /\ handed' = [handed EXCEPT ![p] = done.out]

\* The inner try: the next dialog is looked at.
HistoryFails(p) ==
  /\ At(p, TRUE) /\ ~Uninteresting(Head(walk))
  /\ GoOn
  /\ UNCHANGED <<sent, clock, looked, mark, pollerClosed, handed, old, since>>

\* close() stops the timer, not a poll that is under way.
PollerClose ==
  /\ ~pollerClosed
  /\ pollerClosed' = TRUE
  /\ UNCHANGED <<sent, clock, walk, looked, mark, handed, old, since>>

\* close() does not touch what a poll under way will find: a message that comes
\* after it may as well have come before it.
Arrival ==
  /\ ~pollerClosed
  /\ \E p \in Peers, own, before \in BOOLEAN, date \in {clock, clock + 1} :
       Send(p, own, before, date)

Walk ==
  \E p \in Peers :
    \/ Seed(p) \/ FoundEmpty(p) \/ SeedEmpty(p) \/ SeedFails(p)
    \/ Skip(p) \/ History(p) \/ HistoryFails(p)

PollerNext == Arrival \/ Poll \/ PollerClose \/ Walk

\* The timer fires, a request comes to an end, and one that is made again and
\* again succeeds in the end.
PollerFairness ==
  /\ WF_pollerVars(Poll) /\ WF_pollerVars(Walk)
  /\ \A p \in Peers : SF_pollerVars(Seed(p) \/ SeedEmpty(p) \/ History(p))

PollerSpec == PollerInit /\ [][PollerNext]_pollerVars /\ PollerFairness

-----------------------------------------------------------------------------
(* Properties *)

\* Messages of dialog p the watermark has passed.
Passed(p) == {m \in sent[p] : mark[p].seeded /\ ~Fresh(m, mark[p])}

\* Messages of a dialog that was found empty, with a date before the local time at
\* which it was seeded: they came while Bale's answer was under way, or later if the
\* local clock is ahead (README, deviation 7).
Overlooked(p) == {m \in sent[p] : m.date < since[p]}

\* The messages handed on are exactly those of the other side the watermark has
\* passed, except what was there when Bale first looked into the dialog and what
\* was overlooked when it was empty: no page, shared date or failed request makes
\* the poller miss another, and none from before the start is replayed.
HandedExactly ==
  \A p \in Peers : Range(handed[p]) = {m \in Passed(p) : ~m.own} \ (old[p] \cup Overlooked(p))

\* No message is handed on twice, and those of a dialog come in the order of
\* their dates.
HandedInOrder ==
  \A p \in Peers : \A i, j \in DOMAIN handed[p] :
    i < j => handed[p][i] # handed[p][j] /\ handed[p][i].date <= handed[p][j].date

\* Something of the other side came into a dialog the poller knows and was not
\* handed on, though one's own message does not cover it.
Waiting(p) ==
  /\ ~pollerClosed /\ mark[p].seeded /\ \A m \in Newest(sent[p]) : ~m.own
  /\ \E m \in sent[p] \ (old[p] \cup Overlooked(p)) : ~m.own /\ m \notin Range(handed[p])

\* No message waits for ever: it is handed on in the end, unless it is overlooked,
\* one's own message covers it or the poller is closed; not even behind a dialog
\* whose first look fails again and again and takes the rest of the poll with it.
HandedInTheEnd == \A p \in Peers : []<>~Waiting(p)
=============================================================================
