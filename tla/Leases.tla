------------------------------- MODULE Leases -------------------------------
(***************************************************************************)
(* api/leases.py: the one row of the table leases for one session.  The    *)
(* row is in the SQLite file every process shares, and each method is one  *)
(* SQL statement, hence one step.                                          *)
(*                                                                         *)
(* Time.  A method only ever compares expires_at with the present, so the  *)
(* row keeps the time that is left: expires_at > now is left > 0.          *)
(* acquire draws a random token; a call of start_turn acquires at most     *)
(* once, so the call (a Send) names its token.                             *)
(***************************************************************************)
EXTENDS Integers

CONSTANTS
    Send,     \* the calls of start_turn, each with a token of its own
    NoSend,   \* no row
    TTL       \* lease_ttl, in ticks of the clock

ASSUME NoSendAssumption == NoSend \notin Send

ASSUME TTLAssumption == TTL \in Nat \ {0}

VARIABLE lease

LeaseRow == [token : Send \cup {NoSend}, left : 0 .. TTL]

NoRow == [token |-> NoSend, left |-> 0]

Live == lease.left > 0

Holds(s) == lease.token = s /\ Live

-----------------------------------------------------------------------------
(* A definition with an underscore is a mutant of the next one: the code    *)
(* with a bug in it.                                                        *)

CanAcquire_OneTickEarly == lease.left <= 1

\* acquire: inserts the row, or takes over an expired one; otherwise LeaseHeld.
CanAcquire == ~Live

Granted(s) == [token |-> s, left |-> TTL]

Renewed_NotExtended(s) == lease

Renewed_AddsTTL(s) == [lease EXCEPT !.left = @ + TTL]

\* refresh, for a caller that still holds the lease; otherwise it was lost.
Renewed(s) == [lease EXCEPT !.left = TTL]

Released_AnyToken(s) == NoRow

\* release: deletes the row if it still has the caller's token.
Released(s) == IF lease.token = s THEN NoRow ELSE lease

\* A tick of the clock.
Elapsed == [lease EXCEPT !.left = IF Live THEN @ - 1 ELSE 0]
=============================================================================
