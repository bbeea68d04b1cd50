---------------------------- MODULE MCBackOffice ----------------------------
(* The components of the back office, and the numbering of the bookings,   *)
(* for TLC.  They share no state, so a behaviour is one of a single        *)
(* component, its focus; each is checked as if it had a run of its own.    *)
EXTENDS AnnouncementProperties, OptionLists, VenuePhotos, FeedbackDesk,
        NotificationTriggers, AdminNotifications, Incidents, BookingCode, TLC

CONSTANT d1

VARIABLE focus

OneUser == {1}
OneDeptOf == <<d1>>

(* The components that take two handlers from one set may swap them.       *)
WorkerSymmetry == Permutations(Workers)

Components == {"announcements", "options", "photos", "feedback", "triggers",
               "notifications", "incidents", "numbers"}

(* Components that are not in focus stand at one of their initial states.  *)
BackOfficeInit ==
  /\ focus \in Components
  /\ Init /\ PhIdle /\ FbIdle /\ TrInit /\ NoteInit /\ IncInit /\ CodeInit
  /\ OptInit /\ (focus # "options" => optKind = "amenity")

backVars == <<vars, optVars, phVars, fbVars, trVars, noteVars, incVars, codeVars>>
Focus(component, next, others) ==
  focus = component /\ next /\ UNCHANGED <<focus, others>>

BackOfficeNext ==
  \/ Focus("announcements", Next, <<optVars, phVars, fbVars, trVars, noteVars, incVars, codeVars>>)
  \/ Focus("options", OptNext, <<vars, phVars, fbVars, trVars, noteVars, incVars, codeVars>>)
  \/ Focus("photos", PhNext, <<vars, optVars, fbVars, trVars, noteVars, incVars, codeVars>>)
  \/ Focus("feedback", FbNext, <<vars, optVars, phVars, trVars, noteVars, incVars, codeVars>>)
  \/ Focus("triggers", TrNext, <<vars, optVars, phVars, fbVars, noteVars, incVars, codeVars>>)
  \/ Focus("notifications", NoteNext, <<vars, optVars, phVars, fbVars, trVars, incVars, codeVars>>)
  \/ Focus("incidents", IncNext, <<vars, optVars, phVars, fbVars, trVars, noteVars, codeVars>>)
  \/ Focus("numbers", CodeNext, <<vars, optVars, phVars, fbVars, trVars, noteVars, incVars>>)

BackOfficeSpec == BackOfficeInit /\ [][BackOfficeNext]_<<focus, backVars>>
=============================================================================
