------------------------------ MODULE TagStream -----------------------------
(***************************************************************************)
(* RfidAntennaStreamProcessor (inventory-service/src/rfid) for one tag.    *)
(* Reads come from several antennas, each with its own time of reading,    *)
(* and reach processTagScan in any order.                                  *)
(***************************************************************************)
EXTENDS Integers

CONSTANTS
    Zones,
    ReadTimes,          \* the readTimestamps, bounded
    debounceWindow      \* tagDebounceWindowMs

ASSUME TagAssumption ==
    /\ ReadTimes \subseteq Nat
    /\ debounceWindow \in Nat \ {0}

VARIABLES
    lastSeen,           \* the tag's entry in lastSeenTags, a set of at most one time
    location,           \* its entry in locationIndex, a set of at most one zone
    reads, accepted     \* history: the reads so far, and those accepted

tagVars == <<lastSeen, location, reads, accepted>>

TagInit ==
    /\ lastSeen = {}
    /\ location = {}
    /\ reads = {}
    /\ accepted = {}

Read(time, zone) == [time |-> time, zone |-> zone]

\* A read that is older than the last one accepted is in the window, too.
InWindow(time) == \E seen \in lastSeen : time - seen < debounceWindow

\* Variant with one plausible mistake: a rejected read starts the window again.
SeenLater(time) == {time}

\* lastSeenTags after a rejected read
SeenAfterRejected(time) == lastSeen

processTagScan(time, zone) ==
    /\ reads' = reads \cup {Read(time, zone)}
    /\ \/ /\ InWindow(time)
          /\ lastSeen' = SeenAfterRejected(time)
          /\ UNCHANGED <<location, accepted>>
       \/ /\ ~InWindow(time)
          /\ lastSeen' = {time}
          /\ location' = {zone}
          /\ accepted' = accepted \cup {Read(time, zone)}

TagNext == \E time \in ReadTimes, zone \in Zones : processTagScan(time, zone)

TagSpec == TagInit /\ [][TagNext]_tagVars

----------------------------------------------------------------------------
\* In whatever order reads arrive, and however long a tag is read without a
\* pause: those accepted are a window apart, and the zone of the tag is that of
\* a read less than a window older than the newest one.
LocationRecent ==
    /\ \A r, s \in accepted : r = s \/ r.time - s.time >= debounceWindow
                                    \/ s.time - r.time >= debounceWindow
    /\ \A r \in reads : \E s \in accepted :
        location = {s.zone} /\ r.time - s.time < debounceWindow
=============================================================================
