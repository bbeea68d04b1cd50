---------------------------- MODULE BookingCode ----------------------------
(***************************************************************************)
(* The booking number of booking-code.ts: a Bangkok day and a sequence     *)
(* counted, not reserved, inside the inserting transaction.  Two inserts   *)
(* may compute the same number; the unique index lets one through and the  *)
(* other runs its whole transaction again (insertWithCode in               *)
(* bookings.service.ts, createDirect in admin-bookings.service.ts).        *)
(***************************************************************************)
EXTENDS Naturals, FiniteSets

CONSTANTS
  Inserters,
  DayLength,     \* instants in a day
  Offset,        \* BANGKOK_UTC_OFFSET_MINUTES, in instants
  MaxAttempts,   \* BOOKING_CODE_MAX_ATTEMPTS
  MaxNow,        \* bound: the last instant
  MaxBookings    \* bound: the bookings that are stored

ASSUME CodeAssumption ==
  /\ DayLength \in Nat \ {0}
  /\ {Offset, MaxAttempts, MaxNow, MaxBookings} \subseteq Nat

VARIABLES
  now,        \* the clock
  bookings,   \* the committed rows: code and createdAt
  codeTx          \* the handlers that are inserting

codeVars == <<now, bookings, codeTx>>

(* Mutant of InDayRange: counts the UTC day.                               *)
InUtcDay(t, at) == t \div DayLength = at \div DayLength

(* inBangkok: the calendar day of an instant, and its half-open range.     *)
BangkokDay(at) == (at + Offset) \div DayLength
InDayRange(t, at) == BangkokDay(t) = BangkokDay(at)

NoInsert == [pc |-> "idle", attempt |-> 0, at |-> 0, base |-> 0,
         row |-> [code |-> [day |-> 0, seq |-> 0], createdAt |-> 0]]

(* base remembers how many bookings there were when the handler began.     *)
BeginInsert(w) ==
  /\ codeTx[w].pc = "idle"
  /\ Cardinality(bookings) < MaxBookings
  /\ codeTx' = [codeTx EXCEPT ![w] = [NoInsert EXCEPT !.pc = "clock", !.attempt = 1,
                                          !.base = Cardinality(bookings)]]
  /\ UNCHANGED <<now, bookings>>

(* const now = new Date()                                                  *)
ReadClock(w) ==
  /\ codeTx[w].pc = "clock"
  /\ codeTx' = [codeTx EXCEPT ![w].pc = "count", ![w].at = now]
  /\ UNCHANGED <<now, bookings>>

(* nextBookingCode: the number of rows created in the Bangkok day of the   *)
(* clock reading, plus one.                                                *)
NextBookingCode(w) ==
  /\ codeTx[w].pc = "count"
  /\ codeTx' = [codeTx EXCEPT
       ![w].pc = "insert",
       ![w].row.code = [day |-> BangkokDay(codeTx[w].at),
                        seq |-> 1 + Cardinality({b \in bookings :
                                      InDayRange(b.createdAt, codeTx[w].at)})]]
  /\ UNCHANGED <<now, bookings>>

(* createdAt is @default(now()), which the Prisma client fills in when the *)
(* create call is made.                                                    *)
CreatedAt(w) == now

(* The INSERT.  It waits for a transaction that has written the same code, *)
(* fails on a committed one, and then either starts over or gives up.      *)
InsertRow(w) ==
  LET code == codeTx[w].row.code
  IN  /\ codeTx[w].pc = "insert"
      /\ \A x \in Inserters : codeTx[x].pc = "commit" => codeTx[x].row.code # code
      /\ codeTx' = [codeTx EXCEPT ![w] =
           IF \A b \in bookings : b.code # code
           THEN [@ EXCEPT !.pc = "commit", !.row.createdAt = CreatedAt(w)]
           ELSE IF codeTx[w].attempt = MaxAttempts
                THEN [@ EXCEPT !.pc = "failed"]
                ELSE [@ EXCEPT !.pc = "clock",
                                  !.attempt = codeTx[w].attempt + 1]]
      /\ UNCHANGED <<now, bookings>>

Commit(w) ==
  /\ codeTx[w].pc = "commit"
  /\ bookings' = bookings \cup {codeTx[w].row}
  /\ codeTx' = [codeTx EXCEPT ![w] = NoInsert]
  /\ UNCHANGED now

(* The transaction rolls back for another reason, or the caller has been   *)
(* answered with the failure.                                              *)
Abort(w) ==
  /\ codeTx[w].pc # "idle"
  /\ codeTx' = [codeTx EXCEPT ![w] = NoInsert]
  /\ UNCHANGED <<now, bookings>>

ClockTick == now < MaxNow /\ now' = now + 1 /\ UNCHANGED <<bookings, codeTx>>

CodeInit == now = 0 /\ bookings = {} /\ codeTx = [w \in Inserters |-> NoInsert]

CodeNext ==
  \/ ClockTick
  \/ \E w \in Inserters : \/ BeginInsert(w) \/ ReadClock(w) \/ NextBookingCode(w)
                          \/ InsertRow(w) \/ Commit(w) \/ Abort(w)

CodeSpec == CodeInit /\ [][CodeNext]_<<now, bookings, codeTx>>

-----------------------------------------------------------------------------
(* Every retry is paid for: a handler on attempt k has been beaten by k-1  *)
(* bookings committed since it began.  A recount therefore never computes  *)
(* the taken number again, and the five attempts of                        *)
(* BOOKING_CODE_MAX_ATTEMPTS are used up only under five rivals; midnight  *)
(* passing between the clock reading, the count and the insert included.   *)
RetriesArePaidFor ==
  \A w \in Inserters : codeTx[w].pc # "idle"
    => codeTx[w].attempt <= 1 + (Cardinality(bookings) - codeTx[w].base)
=============================================================================
