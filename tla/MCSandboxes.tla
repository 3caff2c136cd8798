---------------------------- MODULE MCSandboxes -----------------------------
(* Small instances of Sandboxes for TLC. *)
EXTENDS Sandboxes

CONSTANTS q0, q1, q2, u1, p1

QueueMaps(byUser, byProject) ==
  [byUser |-> [u \in {u1} |-> byUser], byProject |-> [p \in {p1} |-> byProject]]

(* No map; the project mapped away from the default; the user elsewhere still. *)
NoMap == QueueMaps(NoQueue, NoQueue)
ProjectMap == QueueMaps(NoQueue, q1)
UserMap == QueueMaps(q2, q1)

MCUnmapped == {NoMap}
MCOneMap == {ProjectMap}
MCMovedMap == {ProjectMap, UserMap}
MCRetiredMap == {ProjectMap, NoMap}

MCOwner == [s \in Sandbox |-> [user |-> u1, project |-> p1]]

MCAllKinds == [attachOnly: BOOLEAN, owned: BOOLEAN]
MCCreateKinds == [attachOnly: {FALSE}, owned: BOOLEAN]
MCById == {ById}
=============================================================================
