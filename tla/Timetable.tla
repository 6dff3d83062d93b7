----------------------------- MODULE Timetable -----------------------------
(***************************************************************************)
(* The batches of the web app and what its screens make of their timetable: *)
(* the batch form with its double-booking warnings, the weekly grid, the    *)
(* roll-call page and the class it opens, the cards that lead to it, the    *)
(* teachers' workload and the family's screens.                             *)
(*                                                                         *)
(* Days are numbered from 1 and a week has Week of them; a day has Hours.   *)
(* One campus is in view; rooms are compared across campuses.  RollCall has *)
(* the marks of a register.  Two extra classes of the same hour are listed  *)
(* as their batches were added, where the code has the order of saving.     *)
(* Op_Fault is Op with one fault, to show that a property depends on Op.   *)
(***************************************************************************)
EXTENDS Integers, Sequences, FiniteSetsExt

CONSTANTS
  Week, LastDay, LastHour,   \* days are 1..LastDay, hours 0..LastHour
  Forms,                     \* what may be entered of a batch
  Teacher,                   \* who open the roll call and see their own first
  Office,                    \* who open it and see every class
  Window,                    \* WORKLOAD_WINDOW_DAYS
  MaxBatches, MaxSaved,      \* bounds
  Null

VARIABLES
  batches,    \* the batches on file, numbered as they were added
  saved,      \* the times, teacher and day of marking of each register
  now,        \* the clock
  page,       \* the roll-call page's address
  toast       \* the Undo button of an archived batch

vars == <<batches, saved, now, page, toast>>

Day == 1..LastDay
Hour == 0..LastHour
Status == {"Active", "Upcoming", "Archived"}
Viewer == Teacher \cup Office

WeekdayOf(d) == d % Week

Init ==
  /\ batches = <<>>
  /\ saved = [k \in {} |-> Null]
  /\ now = [day |-> 1, hour |-> 0]
  /\ page = Null
  /\ toast = Null

-----------------------------------------------------------------------------
(* Double bookings, as the batch form looks for them. *)
ClashDays(a, b) == IF a.start < b.end /\ b.start < a.end THEN a.days \cap b.days ELSE {}

FindClashes(slot, bs, exclude) ==
  {b \in DOMAIN bs \ {exclude} :
     /\ bs[b].status # "Archived" /\ ClashDays(slot, bs[b]) # {}
     /\ \/ slot.teacher = bs[b].teacher
        \/ slot.campus = bs[b].campus /\ slot.room = bs[b].room}

-----------------------------------------------------------------------------
(* The classes of a day.  These take the state as parameters, to speak of   *)
(* the state before a step and after it.                                    *)
ClassesOn(d, bs) ==
  {b \in DOMAIN bs : bs[b].status = "Active" /\ WeekdayOf(d) \in bs[b].days /\ bs[b].from <= d}

Extras(d, bs, ss) == {b \in DOMAIN bs \ ClassesOn(d, bs) : <<b, d>> \in DOMAIN ss}
ClassEntriesFor(d, bs, ss) == ClassesOn(d, bs) \cup Extras(d, bs, ss)

Earlier(x, y) == \E i \in DOMAIN x : x[i] < y[i] /\ \A j \in 1..(i - 1) : x[j] = y[j]
Rank(b, d, bs, ss) ==
  <<IF <<b, d>> \in DOMAIN ss THEN ss[<<b, d>>].start ELSE bs[b].start,
    IF b \in Extras(d, bs, ss) THEN 1 ELSE 0, bs[b].start, b>>
FirstOf(S, d, bs, ss) == CHOOSE b \in S : \A c \in S \ {b} : Earlier(Rank(b, d, bs, ss), Rank(c, d, bs, ss))
LastOf(S, d, bs, ss) == CHOOSE b \in S : \A c \in S \ {b} : Earlier(Rank(c, d, bs, ss), Rank(b, d, bs, ss))

ClassStatus(b, d, bs, ss, t) ==
  IF <<b, d>> \in DOMAIN ss THEN "marked"
  ELSE IF d > t.day THEN "scheduled"
  ELSE IF d < t.day \/ t.hour > bs[b].end THEN "missed"
  ELSE IF t.hour < bs[b].start THEN "upcoming" ELSE "live"

OfStatus(S, status, d, bs, ss, t) == {b \in S : ClassStatus(b, d, bs, ss, t) = status}

(* The class in progress, else the last one missed, else the next one. *)
DefaultClass(S, d, bs, ss, t) ==
  LET of(status) == OfStatus(S, status, d, bs, ss, t)
  IN IF of("live") # {} THEN FirstOf(of("live"), d, bs, ss)
     ELSE IF of("missed") # {} THEN LastOf(of("missed"), d, bs, ss)
     ELSE IF of("upcoming") # {} THEN FirstOf(of("upcoming"), d, bs, ss)
     ELSE IF S # {} THEN FirstOf(S, d, bs, ss) ELSE Null

-----------------------------------------------------------------------------
(* The roll-call page: its address may name a day, or stand for today (0),  *)
(* and a batch; the class it opens by itself is pinned into the address.    *)
DateOf(p, t) == IF p.date = 0 THEN t.day ELSE p.date

Listed(p, bs, ss, t) ==
  LET all == ClassEntriesFor(DateOf(p, t), bs, ss)
  IN IF p.viewer \in Teacher /\ ~p.all THEN {b \in all : bs[b].teacher = p.viewer} ELSE all

Requested(p, bs, ss, t) ==
  IF \/ p.batch \in ClassEntriesFor(DateOf(p, t), bs, ss)
     \/ p.batch \in DOMAIN bs /\ bs[p.batch].status # "Archived"
    THEN p.batch ELSE Null

Selected(p, bs, ss, t) ==
  IF Requested(p, bs, ss, t) # Null THEN p.batch
  ELSE DefaultClass(Listed(p, bs, ss, t), DateOf(p, t), bs, ss, t)

Pinned_Never(p, bs, ss, t) == p
Pinned(p, bs, ss, t) ==
  IF p = Null \/ Selected(p, bs, ss, t) = Null THEN p
  ELSE [p EXCEPT !.batch = Selected(p, bs, ss, t)]

ExtraOptions(p) ==
  {b \in DOMAIN batches : batches[b].status = "Active"} \ Listed(p, batches, saved, now)
Offered(p) == Listed(p, batches, saved, now) \cup ExtraOptions(p)

(* The dashboard's list of today's classes links to each of them. *)
TodaySchedule == ClassEntriesFor(now.day, batches, saved)

(* The page follows the store and the clock. *)
Render == page' = Pinned(page, batches', saved', now')

-----------------------------------------------------------------------------
(* The form that adds a batch opens over any screen. *)
AddBatch(form) ==
  /\ Len(batches) < MaxBatches
  /\ batches' = Append(batches, form)
  /\ UNCHANGED <<saved, now, toast>> /\ Render

UpdateBatch(b, form) ==
  /\ page = Null /\ batches[b] # form
  /\ batches' = [batches EXCEPT ![b] = form]
  /\ UNCHANGED <<saved, now, page, toast>>

ArchiveBatch(b) ==
  /\ page = Null /\ batches[b].status # "Archived"
  /\ batches' = [batches EXCEPT ![b].status = "Archived"]
  /\ toast' = [batch |-> b, status |-> batches[b].status]
  /\ UNCHANGED <<saved, now, page>>

Undo ==
  /\ toast # Null
  /\ batches' = [batches EXCEPT ![toast.batch].status = toast.status]
  /\ toast' = Null
  /\ UNCHANGED <<saved, now>> /\ Render
ToastExpires == toast # Null /\ toast' = Null /\ UNCHANGED <<batches, saved, now, page>>

RestoreBatch(b) ==
  /\ page = Null /\ batches[b].status = "Archived"
  /\ batches' = [batches EXCEPT ![b].status = "Active"]
  /\ UNCHANGED <<saved, now, page, toast>>

Show(p) == page' = Pinned(p, batches, saved, now) /\ UNCHANGED <<batches, saved, now, toast>>

(* From the menu, or from a link to one class. *)
Open(viewer, date, b) ==
  /\ page = Null
  /\ Show([viewer |-> viewer, date |-> date, batch |-> b, all |-> FALSE])
Leave == page # Null /\ page' = Null /\ UNCHANGED <<batches, saved, now, toast>>

GoToDate(d) ==
  /\ page # Null
  /\ Show([page EXCEPT !.date = IF d = now.day THEN 0 ELSE d,
                       !.batch = IF @ # Null /\ @ \in ClassEntriesFor(d, batches, saved) THEN @ ELSE Null])
SelectBatch(b) == page # Null /\ Show([page EXCEPT !.batch = b])
ShowAll(all) == page # Null /\ page.viewer \in Teacher /\ Show([page EXCEPT !.all = all, !.batch = Null])

(* A register keeps the times and the teacher of its first saving. *)
SaveSession(k) ==
  /\ k \in DOMAIN saved \/ Cardinality(DOMAIN saved) < MaxSaved
  /\ k[2] <= now.day
  /\ saved' = [r \in DOMAIN saved \cup {k} |->
                 IF r # k THEN saved[r]
                 ELSE [start |-> IF k \in DOMAIN saved THEN saved[k].start ELSE batches[k[1]].start,
                       teacher |-> IF k \in DOMAIN saved THEN saved[k].teacher
                                   ELSE IF page.viewer \in Teacher THEN page.viewer ELSE batches[k[1]].teacher,
                       markedOn |-> now.day]]
  /\ UNCHANGED <<batches, now, toast>> /\ Render

Tick ==
  /\ now' = IF now.hour < LastHour THEN [now EXCEPT !.hour = @ + 1] ELSE [day |-> now.day + 1, hour |-> 0]
  /\ now'.day <= LastDay
  /\ UNCHANGED <<batches, saved, toast>> /\ Render

Next ==
  \/ \E form \in Forms : AddBatch(form) \/ \E b \in DOMAIN batches : UpdateBatch(b, form)
  \/ \E b \in DOMAIN batches : ArchiveBatch(b) \/ RestoreBatch(b)
  \/ Undo \/ ToastExpires \/ Leave \/ Tick
  \/ \E viewer \in Viewer : Open(viewer, 0, Null) \/ \E b \in TodaySchedule : Open(viewer, now.day, b)
  \/ \E d \in Day : GoToDate(d)
  \/ page # Null /\ \E b \in Offered(page) : SelectBatch(b)
  \/ \E all \in BOOLEAN : ShowAll(all)
  \/ /\ page # Null /\ Selected(page, batches, saved, now) # Null
     /\ SaveSession(<<Selected(page, batches, saved, now), DateOf(page, now)>>)

Spec == Init /\ [][Next]_vars

-----------------------------------------------------------------------------
(* The other screens. *)
ByDay(w) == {b \in DOMAIN batches : w \in batches[b].days}

(* Blocks of one column side by side: each takes the first lane that is     *)
(* free, and blocks that overlap share the width of their cluster.          *)
Place_Anywhere(ends, start) == 1
Place(ends, start) ==
  LET free == {l \in DOMAIN ends : ends[l] <= start}
  IN IF free = {} THEN Cardinality(DOMAIN ends) + 1 ELSE Min(free)

Laid(p, b) ==
  LET fresh == batches[b].start >= p.until
      ends == IF fresh THEN <<>> ELSE p.ends
      lane == Place(ends, batches[b].start)
  IN [cluster |-> p.cluster + IF fresh THEN 1 ELSE 0, lane |-> lane,
      until |-> IF batches[b].end > p.until THEN batches[b].end ELSE p.until,
      ends |-> [l \in DOMAIN ends \cup {lane} |-> IF l = lane THEN batches[b].end ELSE ends[l]]]
Packed(order) ==
  LET pass[i \in {0} \cup DOMAIN order] ==
        IF i = 0 THEN [cluster |-> 0, lane |-> 0, until |-> -1, ends |-> <<>>] ELSE Laid(pass[i - 1], order[i])
  IN [i \in DOMAIN order |-> [batch |-> order[i], lane |-> pass[i].lane, cluster |-> pass[i].cluster]]

InOrder(S) ==
  CHOOSE order \in [1..Cardinality(S) -> S] : \A j, k \in DOMAIN order : j < k =>
    Earlier(<<batches[order[j]].start, batches[order[j]].end, order[j]>>,
            <<batches[order[k]].start, batches[order[k]].end, order[k]>>)
PackBlocks(w) == Packed(InOrder(ByDay(w)))
Lanes(blocks, p) == Max({blocks[i].lane : i \in {j \in DOMAIN blocks : blocks[j].cluster = p.cluster}})

(* The card on the roster: one in progress, else the next, else one missed. *)
Pending(viewer) ==
  LET all == {b \in ClassesOn(now.day, batches) : <<b, now.day>> \notin DOMAIN saved}
      mine == {b \in all : viewer \in Teacher /\ batches[b].teacher = viewer}
  IN IF mine # {} THEN mine ELSE all

FastAttendance(viewer) ==
  LET live == {b \in Pending(viewer) : batches[b].start <= now.hour /\ batches[b].end >= now.hour}
      next == {b \in Pending(viewer) : batches[b].start > now.hour}
      overdue == {b \in Pending(viewer) : batches[b].end < now.hour}
      first(S) == FirstOf(S, now.day, batches, saved)
  IN IF live # {} THEN [class |-> first(live), kind |-> "live"]
     ELSE IF next # {} THEN [class |-> first(next), kind |-> "next"]
     ELSE IF overdue # {} THEN [class |-> first(overdue), kind |-> "overdue"] ELSE Null

Sum(f) == MapThenSumSet(LAMBDA x : f[x], DOMAIN f)
WeeklyHours(b) == Cardinality(batches[b].days) * (batches[b].end - batches[b].start)
Workload(teacher) ==
  LET own == {b \in DOMAIN batches : batches[b].teacher = teacher /\ batches[b].status = "Active"}
      held == {k \in DOMAIN saved : saved[k].teacher = teacher /\ now.day - Window < k[2] /\ k[2] <= now.day}
  IN [hours |-> Sum([b \in own |-> WeeklyHours(b)]), held |-> Cardinality(held),
      onTime |-> Cardinality({k \in held : saved[k].markedOn = k[2]})]

(* What is to come, of the batches mine of a student: on the profile, on    *)
(* the family's first screen, and on its timetable.                         *)
Mine(d, mine) == ClassesOn(d, batches) \cap mine
Upcoming(mine) ==
  {x \in (now.day..(now.day + Week - 1)) \X mine :
     x[2] \in Mine(x[1], mine) /\ (x[1] # now.day \/ batches[x[2]].end > now.hour)}

FirstAhead(mine, today) ==
  LET on(d) == IF d = now.day THEN today ELSE Mine(d, mine)
      days == {d \in now.day..(now.day + 2 * Week) : on(d) # {}}
  IN IF days = {} THEN Null
     ELSE <<Min(days), FirstOf(on(Min(days)), Min(days), batches, [k \in {} |-> Null])>>
NextOnHome(mine) == FirstAhead(mine, {b \in Mine(now.day, mine) : batches[b].end > now.hour})
NextOnTimetable(mine) == FirstAhead(mine, {b \in Mine(now.day, mine) : batches[b].start > now.hour})

PortalWeek(d, mine, closed) == {b \in Mine(d, mine) : closed => <<b, d>> \in DOMAIN saved}
PortalRow(b, d) ==
  [past |-> d = now.day /\ batches[b].end <= now.hour,
   live |-> d = now.day /\ batches[b].start <= now.hour /\ batches[b].end > now.hour]
CalendarDot(d, mine) == d >= now.day /\ Mine(d, mine) # {}

-----------------------------------------------------------------------------
(* Batches, registers, the clock and the page have the forms above. *)
TypeOK ==
  /\ Len(batches) <= MaxBatches
  /\ \A b \in DOMAIN batches : /\ batches[b].status \in Status
                               /\ \E form \in Forms : batches[b] = [form EXCEPT !.status = batches[b].status]
  /\ \A k \in DOMAIN saved : k[1] \in DOMAIN batches /\ k[2] <= saved[k].markedOn /\ saved[k].markedOn <= now.day
  /\ now \in [day : Day, hour : Hour]
  /\ page # Null => /\ page.viewer \in Viewer /\ page.date \in {0} \cup Day
                    /\ page.batch \in DOMAIN batches \cup {Null}
  /\ toast # Null => toast.batch \in DOMAIN batches

Overlap(a, b) == a.start < b.end /\ b.start < a.end

(* No block of the weekly grid hides another: blocks at the same hour are   *)
(* in different lanes of one width, and no lane is wasted.                  *)
BlocksApart ==
  \A w \in 0..(Week - 1) : LET blocks == PackBlocks(w) IN
    /\ {blocks[i].batch : i \in DOMAIN blocks} = ByDay(w)
    /\ \A i, j \in DOMAIN blocks : i # j /\ Overlap(batches[blocks[i].batch], batches[blocks[j].batch]) =>
         blocks[i].lane # blocks[j].lane /\ blocks[i].cluster = blocks[j].cluster
    /\ \A i \in DOMAIN blocks : \E h \in {batches[b].start : b \in ByDay(w)} :
         Lanes(blocks, blocks[i]) = Cardinality({j \in DOMAIN blocks :
           blocks[j].cluster = blocks[i].cluster
             /\ batches[blocks[j].batch].start <= h /\ h < batches[blocks[j].batch].end})

(* The class the roster's card finds in progress is the one the roll call   *)
(* opens, for the office and for a teacher with a class of their own to     *)
(* mark; and the card is silent only when nothing is left to mark.          *)
CardOpensClass ==
  \A viewer \in Viewer \cup {Null} : LET card == FastAttendance(viewer)
                             opened == [viewer |-> viewer, date |-> 0, batch |-> Null, all |-> FALSE]
    IN /\ card = Null <=> Pending(viewer) = {}
       /\ card # Null /\ card.kind = "live" /\ card.class \in Listed(opened, batches, saved, now) =>
            card.class = Selected(opened, batches, saved, now)

(* The family's screens and the office's name the same next class, unless   *)
(* it is in progress; a class shown as going on is not one the office has   *)
(* yet to start or has missed; and a calendar has a dot on its day.         *)
FamilyAgrees ==
  \A mine \in SUBSET DOMAIN batches :
    LET home == NextOnHome(mine)
        later == {x \in Upcoming(mine) : x[1] > now.day \/ batches[x[2]].start > now.hour}
        first(S) == <<Min({x[1] : x \in S}),
                      FirstOf({x[2] : x \in {y \in S : y[1] = Min({z[1] : z \in S})}}, 1, batches, [k \in {} |-> Null])>>
    IN /\ Upcoming(mine) # {} => home = first(Upcoming(mine))
       /\ later # {} => NextOnTimetable(mine) = first(later)
       /\ home # Null => CalendarDot(home[1], mine)
       /\ \A d \in Day : \A b \in PortalWeek(d, mine, FALSE) :
            /\ PortalRow(b, d).live => ClassStatus(b, d, batches, saved, now) \in {"live", "marked"}
            /\ PortalRow(b, d).past => ClassStatus(b, d, batches, saved, now) # "upcoming"
            /\ b \in ByDay(WeekdayOf(d)) /\ b \in ClassEntriesFor(d, batches, saved)

(* The teachers' hours and classes add up to the batches' and registers'.   *)
WorkloadAddsUp ==
  LET teachers == {batches[b].teacher : b \in DOMAIN batches} \cup {saved[k].teacher : k \in DOMAIN saved}
      active == {b \in DOMAIN batches : batches[b].status = "Active"}
  IN /\ Sum([f \in teachers |-> Workload(f).hours]) = Sum([b \in active |-> WeeklyHours(b)])
     /\ Sum([f \in teachers |-> Workload(f).held]) = Cardinality({k \in DOMAIN saved : now.day - Window < k[2]})

TimetableAgrees == BlocksApart /\ CardOpensClass /\ FamilyAgrees /\ WorkloadAddsUp

(* While the roll call is open, neither saving nor the clock nor an Undo    *)
(* button takes the class away from under its user, until the day ends.     *)
RollStays ==
  [][LET was == Selected(page, batches, saved, now) IN
     page # Null /\ was # Null /\ now'.day = now.day /\ <<batches, saved, now>>' # <<batches, saved, now>> =>
       page' # Null /\ Selected(page', batches', saved', now') = was]_vars

(* A teacher or a room is booked twice at one hour. *)
BookedTwice(bs, a, b) ==
  /\ bs[a].status # "Archived" /\ bs[b].status # "Archived"
  /\ \E w \in bs[a].days \cap bs[b].days, h \in Hour :
       {bs[a].start, bs[b].start} \subseteq 0..h /\ h < bs[a].end /\ h < bs[b].end
  /\ bs[a].teacher = bs[b].teacher \/ <<bs[a].room, bs[a].campus>> = <<bs[b].room, bs[b].campus>>

(* Two batches come to be booked twice only past the form's warning, or by  *)
(* taking one out of the archive, where nothing warns.                      *)
DoubleBookingsWarned ==
  [][\A a, b \in DOMAIN batches' :
       a < b /\ BookedTwice(batches', a, b) /\ ~(b \in DOMAIN batches /\ BookedTwice(batches, a, b)) =>
         \/ \E x \in {a, b} \cap DOMAIN batches : batches[x].status = "Archived"
         \/ b \in FindClashes(batches'[a], batches, a)
         \/ a \in FindClashes(batches'[b], batches, b)]_vars

TimetableKept == RollStays /\ DoubleBookingsWarned
=============================================================================
