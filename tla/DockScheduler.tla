---------------------------- MODULE DockScheduler ----------------------------
(***************************************************************************)
(* AutomatedDockDoorAppointmentScheduler (inventory-service/src/dock).     *)
(*                                                                         *)
(* The id of an appointment is the millisecond of its booking: a second    *)
(* booking in the same millisecond replaces the first in the map.  A door  *)
(* is reduced to whether it is operational and to the kinds of request     *)
(* (warehouse, direction, cold seal) it serves.                            *)
(***************************************************************************)
EXTENDS Naturals, Sequences

CONSTANTS
    DoorSpecs,          \* the doors that get registered: [doorId, serves, isOperational]
    Kinds,              \* what is asked of a door
    Times,              \* the values of startTime
    LoadMinutes,        \* the values of durationMinutes
    MaxBookings         \* bound: bookings

ASSUME DockAssumption == Times \subseteq Nat /\ LoadMinutes \subseteq Nat

VARIABLES
    doors, appointments,    \* the two maps, in the order of insertion
    sameMs,                 \* the clock has not moved since the last booking
    returned, replaced      \* history: every slot bookAppointment returned, in
                            \* order, and which of them the map lost again

dockHistory == <<returned, replaced>>
dockVars == <<doors, appointments, sameMs, dockHistory>>

DockInit ==
    /\ doors = <<>>
    /\ appointments = <<>>
    /\ sameMs = FALSE
    /\ returned = <<>>
    /\ replaced = {}

----------------------------------------------------------------------------
(* Variants of the definitions below, each with one plausible mistake.     *)

\* > for >=: a slot that starts with another is no conflict.
ConflictOpenStart(app, start, end) ==
    \/ start > app.start /\ start < app.end
    \/ end > app.start /\ end <= app.end

----------------------------------------------------------------------------
\* doors.set: a door that is registered again keeps its place.
registerDoor(door) ==
    LET same == {i \in DOMAIN doors : doors[i].doorId = door.doorId}
    IN  /\ doors' = IF same = {} THEN Append(doors, door)
                    ELSE [i \in DOMAIN doors |-> IF i \in same THEN door ELSE doors[i]]
        /\ UNCHANGED <<appointments, sameMs, dockHistory>>

eligibleDoors(kind) == {i \in DOMAIN doors : doors[i].isOperational /\ kind \in doors[i].serves}

\* The start or the end of the new slot lies in the old one.
Conflict(app, start, end) ==
    \/ start >= app.start /\ start < app.end
    \/ end > app.start /\ end <= app.end

hasConflict(door, start, end) ==
    \E i \in DOMAIN appointments :
        appointments[i].doorId = door.doorId /\ Conflict(appointments[i], start, end)

\* A door is found, the first one registered that serves; without one the call
\* throws and changes nothing.
bookAppointment(kind, start, minutes) ==
    LET end == start + minutes
        free == {i \in eligibleDoors(kind) : ~hasConflict(doors[i], start, end)}
        door == doors[CHOOSE i \in free : \A j \in free : i <= j]
        slot == [doorId |-> door.doorId, start |-> start, end |-> end]
    IN  /\ Len(returned) < MaxBookings
        /\ free # {}
        /\ appointments' = IF sameMs THEN [appointments EXCEPT ![Len(appointments)] = slot]
                           ELSE Append(appointments, slot)
        /\ sameMs' = TRUE
        /\ returned' = Append(returned, slot)
        /\ replaced' = IF sameMs THEN replaced \cup {Len(returned)} ELSE replaced
        /\ UNCHANGED doors

\* external: Date.now() moves on
DockTick ==
    /\ sameMs
    /\ sameMs' = FALSE
    /\ UNCHANGED <<doors, appointments, dockHistory>>

DockNext ==
    \/ \E door \in DoorSpecs : registerDoor(door)
    \/ \E kind \in Kinds, start \in Times, minutes \in LoadMinutes :
            bookAppointment(kind, start, minutes)
    \/ DockTick

DockSpec == DockInit /\ [][DockNext]_dockVars

----------------------------------------------------------------------------
Overlap(s, t) == s.doorId = t.doorId /\ s.start < t.end /\ t.start < s.end

\* Two slots that were given away overlap on a door only in two ways: the later
\* one begins before and ends after the earlier, or the earlier was replaced in
\* the map by a booking of the same millisecond.  Doors may be taken out of
\* service and registered again in between.
OverlapExplained ==
    \A i, j \in DOMAIN returned :
        i < j /\ Overlap(returned[i], returned[j]) =>
            \/ returned[j].start < returned[i].start /\ returned[i].end < returned[j].end
            \/ i \in replaced
=============================================================================
