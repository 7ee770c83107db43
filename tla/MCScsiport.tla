----------------------------- MODULE MCScsiport -----------------------------
(***************************************************************************)
(* Two reads with their keys in either order, a synchronous request of the *)
(* same disk that freezes its queue when it fails, and the INQUIRY of a    *)
(* bus scan for a unit that does not exist.                                *)
(***************************************************************************)
EXTENDS Scsiport

CONSTANTS r1, r2, sync, scan, disk, absent

MCUnitOf == [s \in Srbs |-> IF s = scan THEN absent ELSE disk]

\* The first read's sector is behind the second's.
MCSortKey == [s \in Srbs |-> CASE s = r1 -> 2 [] s = r2 -> 1 [] OTHER -> 0]

\* The second read is larger than the extension's scatter list.
MCSegments == [s \in Srbs |-> IF s = r2 THEN 3 ELSE 1]

=============================================================================
