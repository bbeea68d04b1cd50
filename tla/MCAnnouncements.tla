--------------------------- MODULE MCAnnouncements ---------------------------
(* Small instances of Announcements for TLC.                               *)
EXTENDS AnnouncementProperties, TLC

CONSTANT d1

(* One user of the department, or two users of none.                       *)
OneUser == {1}
OneDeptOf == <<d1>>
TwoUsers == {1, 2}
NoDeptOf == <<None, None>>

WorkerSymmetry == Permutations(Workers)
==============================================================================
