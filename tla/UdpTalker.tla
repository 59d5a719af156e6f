----------------------------- MODULE UdpTalker -----------------------------
(***************************************************************************)
(* The traffic shaper of udp_load: udp_talker::run().  Time is cut into    *)
(* slots of WIDTH milliseconds; PACKETS packets are to leave in every      *)
(* window of SLOTS slots.  run() sends a group at a time, reads the clock  *)
(* after each one and decides to send more in the same slot, to go on with *)
(* the next one, or to skip the slots that passed meanwhile.               *)
(*                                                                         *)
(* The clock ticks by itself, so a send, a sleep and the code between them *)
(* take any time.  What a send manages is any number up to what it is      *)
(* asked for: sendto() and sendmmsg() give up when the network has no      *)
(* buffers.                                                                *)
(***************************************************************************)
EXTENDS Integers

CONSTANTS
  SLOTS,      \* slots_: slots in a window
  WIDTH,      \* width_: milliseconds in a slot
  PACKETS,    \* packets_: packets in a window
  DURATION,   \* the duration run() is asked for, in milliseconds
  Word,       \* 2^32: the values of a std::uint32_t
  HalfWord,   \* 2^16: the values of a std::uint16_t
  MaxTime,    \* bound: the clock stops here, or when the slot of run() is over
  MaxGroups   \* bound: groups that are sent in a millisecond

\* What the constants are; make_options() accepts no zero.
TalkerAssumption ==
  /\ {SLOTS, WIDTH, PACKETS, HalfWord, MaxGroups} \subseteq Nat \ {0}
  /\ DURATION \in Nat
  /\ Word \in Nat /\ SLOTS < HalfWord /\ WIDTH < HalfWord /\ PACKETS < Word
  /\ MaxTime \in Nat

VARIABLES
  now,      \* milliseconds since start_time, by the system's clock
  pc,       \* where run() stands: "ready", "sending", "sleeping", "done"
  s,        \* the slot whose packets are sent
  r,        \* groups sent so far
  count,    \* packet_sent_window_count
  sent,     \* packets the last call of send_packets() sent
  total,    \* total_sent
  elapsed,  \* elapsed_time, the clock when the last group was sent
  wake,     \* the time sleep_for() may return
  late,     \* history: a slot was ever found to have passed already
  short,    \* history: send_packets() ever sent less than it was asked to
  groups    \* groups sent since the clock ticked

vars == <<now, pc, s, r, count, sent, total, elapsed, wake, late, short,
          groups>>

\* expected_time: one window at least
RunTime == IF DURATION < SLOTS * WIDTH THEN SLOTS * WIDTH ELSE DURATION

\* packets_ * x / slots_, in std::uint32_t
Share(x) == ((PACKETS * x) % Word) \div SLOTS

\* packet_sent_expected in slot x
Expected(x) == IF x < SLOTS THEN Share(x + 1) ELSE PACKETS

\* packet_sent_remaining, an unsigned difference
Remaining == (Expected(s) - count) % Word

\* packet_send_max of the next group
GroupMax == (Share(r + 1) - Share(r)) % Word

\* Mutant of Group: what remains of the slot does not limit the group.
GroupUnlimited == GroupMax

\* packet_send, what run() decides to send
Group == IF Remaining > GroupMax THEN GroupMax ELSE Remaining

\* The argument of send_packets(std::uint16_t)
Asked == Group % HalfWord

-----------------------------------------------------------------------------

Init ==
  /\ now = 0 /\ pc = "ready"
  /\ s = 0 /\ r = 0 /\ count = 0 /\ sent = 0 /\ total = 0
  /\ elapsed = 0 /\ wake = 0
  /\ late = FALSE /\ short = FALSE /\ groups = 0

\* sf, the slot the clock says
ClockSlot == now \div WIDTH

Tick ==
  /\ now < MaxTime \/ ClockSlot <= s
  /\ now' = now + 1 /\ groups' = 0
  /\ UNCHANGED <<pc, s, r, count, sent, total, elapsed, wake, late, short>>

\* The call of send_packets(): it sends n packets, all of them or fewer.
SendGroup ==
  /\ pc = "ready"
  /\ groups < MaxGroups /\ groups' = groups + 1
  /\ pc' = "sending"
  /\ \E n \in 0 .. Asked :
       /\ sent' = n
       /\ short' = (short \/ n < Asked)
  /\ UNCHANGED <<now, s, r, count, total, elapsed, wake, late>>

\* What every group does when it is sent, before run() looks at the slot.
Account ==
  /\ pc = "sending"
  /\ elapsed' = now
  /\ total' = (total + sent) % Word
  /\ r' = (r + 1) % Word
  /\ UNCHANGED <<now, sent, short, groups>>

\* The slot is not over and not all of it is sent: the next group at once.
Resend ==
  /\ Account
  /\ ClockSlot <= s
  /\ Expected(s) > (count + sent) % Word
  /\ count' = (count + sent) % Word
  /\ pc' = "ready"
  /\ UNCHANGED <<s, wake, late>>

\* Mutant of Credits: the slot that begins counts as well as those that are over.
CreditsOneMore(old, new) ==
  LET from == IF old < SLOTS - 1 THEN SLOTS - 1 ELSE old
  IN  (Share((r + 1) + (new - from) + 1) - Share(r + 1)) % Word

\* The packets that leave the window when run() goes from slot sp to slot s:
\* nothing until a whole window has passed and is used up.
Credits(old, new) ==
  LET from == IF old < SLOTS - 1 THEN SLOTS - 1 ELSE old
  IN  (Share((r + 1) + (new - from)) - Share(r + 1)) % Word

CountAt(old, new, c) ==
  IF new >= SLOTS /\ c >= PACKETS
    THEN IF c > Credits(old, new) THEN c - Credits(old, new) ELSE 0
    ELSE c

\* The sleep, and the end of the loop, which looks at the clock before it.
Sleep(W) == /\ pc' = "sleeping"
            /\ wake' = IF W >= 4 THEN now + W ELSE now

\* The slot is complete: the next one, at its time or up to 3 ms before.
NextSlot ==
  /\ Account
  /\ ClockSlot <= s
  /\ Expected(s) <= (count + sent) % Word
  /\ s' = (s + 1) % Word
  /\ count' = CountAt(s, s', (count + sent) % Word)
  /\ Sleep(((s' * WIDTH) % Word) - now)
  /\ UNCHANGED late

\* The clock is in a later slot already: go there and do not wait.
SkipSlots ==
  /\ Account
  /\ ClockSlot > s
  /\ s' = ClockSlot
  /\ count' = CountAt(s, s', (count + sent) % Word)
  /\ Sleep(0)
  /\ late' = TRUE

WakeUp ==
  /\ pc = "sleeping" /\ now >= wake
  /\ pc' = IF elapsed < RunTime THEN "ready" ELSE "done"
  /\ UNCHANGED <<now, s, r, count, sent, total, elapsed, wake, late, short,
                 groups>>

\* run() returned its results.
Finished == pc = "done" /\ UNCHANGED vars

Thread == SendGroup \/ Resend \/ NextSlot \/ SkipSlots \/ WakeUp

Next == Tick \/ Thread \/ Finished

Fairness == WF_vars(Tick) /\ WF_vars(Thread)

Spec == Init /\ [][Next]_vars /\ Fairness

\* packets_expected of the results
PacketsExpected == ((PACKETS * s) % Word) \div SLOTS

-----------------------------------------------------------------------------

\* Every variable has its type and the counters are within their words.
TypeOK ==
  /\ now \in Nat /\ elapsed \in 0 .. now
  /\ pc \in {"ready", "sending", "sleeping", "done"}
  /\ {s, r, count, total} \subseteq 0 .. Word - 1
  /\ sent \in 0 .. HalfWord - 1
  /\ wake \in Nat
  /\ late \in BOOLEAN /\ short \in BOOLEAN /\ groups \in 0 .. MaxGroups

\* packet_sent_expected - packet_sent_window_count, unsigned, never wraps: no
\* group, be it a resend after a short one or the first after skipped slots,
\* takes the window beyond what its slot is to reach.
WindowNotExceeded ==
  /\ pc = "ready" => count <= Expected(s)
  /\ pc = "sending" => count + sent <= Expected(s)

\* "with bursts up to 3ms": run() never sends the packets of a slot more than
\* 3 ms before the slot begins.
BurstBound == pc = "ready" => s * WIDTH - now <= 3

\* The rate: whatever is late, sent short or sent again, no more packets leave
\* than the slots so far are worth.  The code keeps it when the slots of a
\* window share its packets evenly.
RateKept == total <= (PACKETS * (s + 1)) \div SLOTS

\* A run that is on time and whose sends succeed sends all it says it should.
OnTimeSendsAll ==
  pc = "done" /\ ~late /\ ~short => total = PacketsExpected

\* All three: no slot gives more than it is to reach, none long before its time,
\* and all of it when nothing is late.
SlotsKept == WindowNotExceeded /\ BurstBound /\ OnTimeSendsAll

=============================================================================
