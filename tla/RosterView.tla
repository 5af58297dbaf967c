----------------------------- MODULE RosterView -----------------------------
(***************************************************************************)
(* UserViewModel, the model behind the roster's tree, on top of the        *)
(* contact lists of Roster.  It keeps the ids of the contacts in its two   *)
(* sections and refills them whenever a view asks for a number of rows; a  *)
(* view lays a section out once, when the user opens it, and paints the    *)
(* rows it counted then.                                                   *)
(*                                                                         *)
(* As built, nothing connects the model's slots to the events; its test    *)
(* does (testuserviewmodel.cpp).  Both wirings are modelled.  Rows are in  *)
(* the order of contact ids, so a section is a set of ids.                 *)
(***************************************************************************)
EXTENDS Roster

CONSTANT Wirings     \* are the slots connected?  a set of answers
ASSUME WiringsAssumption == Wirings \subseteq BOOLEAN

Section == {"online", "offline"}
Shut == -1

VARIABLES
    wired,     \* are the slots connected to the two events?
    cache,     \* m_onlineContacts, m_offlineContacts
    valid,     \* m_contactsCacheValid
    laid       \* rows a view has laid out in a section, or Shut

viewVars == <<wired, cache, valid, laid>>
allVars == <<contacts, icq, groups, packet, rest, stage, packets, told,
             wired, cache, valid, laid>>

\* Contact::isOnline() of a contact with one IM contact or none: one the
\* profile brought stays offline, a null status is passed over.
isOnlineNullIsNot(id, items) ==     \* mutant
    contacts[id].listed /\ items[contacts[id].item].status = "online"
isOnline(id, items) ==
    contacts[id].listed /\ items[contacts[id].item].status # "offline"

\* fillCaches(), when the ICQ contacts are items.
Filled(items) ==
    [s \in Section |-> {id \in contactIds : isOnline(id, items) <=> s = "online"}]

ViewInit ==
    /\ Init
    /\ wired \in Wirings
    /\ cache = [s \in Section |-> {}] /\ valid = FALSE
    /\ laid = [s \in Section |-> Shut]

\* rowCount() of a section: always a refill.
rowCountOnce ==                     \* mutant: only when they are not valid
    cache' = (IF valid THEN cache ELSE Filled(icq)) /\ valid' = TRUE
rowCount == cache' = Filled(icq) /\ valid' = TRUE

\* The user opens a section; the view counts its rows and lays them out.
Expand ==
    \E s \in Section :
        /\ laid[s] = Shut
        /\ rowCount
        /\ laid' = [laid EXCEPT ![s] = Cardinality(cache'[s])]
        /\ UNCHANGED <<vars, wired>>

Collapse ==
    \E s \in Section :
        /\ laid[s] # Shut
        /\ laid' = [laid EXCEPT ![s] = Shut]
        /\ UNCHANGED <<vars, wired, cache, valid>>

\* The view asks for a count and lays nothing out (hasChildren does).
CountRows ==
    /\ rowCount
    /\ UNCHANGED <<vars, wired, laid>>

\* contactListUpdated(): the reset shuts the view's sections.  The ids the
\* model keeps are left alone.
contactListUpdated ==
    /\ laid' = [s \in Section |-> Shut]
    /\ UNCHANGED <<wired, cache, valid>>

\* contactStatusChanged(id): the row that is painted again is looked up where
\* it last was; no row moves.
contactStatusChanged ==
    /\ cache' = IF valid THEN cache ELSE Filled(icq')
    /\ valid' = TRUE
    /\ UNCHANGED <<wired, laid>>

AnnounceList ==
    /\ ListUpdated
    /\ IF wired THEN contactListUpdated ELSE UNCHANGED viewVars

AnnounceStatus ==
    /\ processUserOnline
    /\ IF wired THEN contactStatusChanged ELSE UNCHANGED viewVars

\* Steps of the lists that announce nothing.
Silent ==
    /\ \/ ListArrives \/ KnownContact \/ NewContact \/ BadContact
       \/ GroupEntry \/ OtherEntry \/ ShortEntry
    /\ UNCHANGED viewVars

ViewNext == Expand \/ Collapse \/ CountRows \/ AnnounceList \/ AnnounceStatus
            \/ Silent

ViewSpec == ViewInit /\ [][ViewNext]_allVars

-----------------------------------------------------------------------------
(* Properties *)

\* Every variable has its type, and a view that has rows has filled the
\* lists of ids (contactData would otherwise fill them while painting).
ViewTypeOK ==
    /\ wired \in BOOLEAN /\ valid \in BOOLEAN
    /\ cache \in [Section -> SUBSET Nat]
    /\ laid \in [Section -> Nat \cup {Shut}]
    /\ \A s \in Section : laid[s] # Shut => valid

\* A row laid out under "Online" is never blank and never shows a contact
\* that is offline, although the model is told of nothing: no path makes a
\* contact offline again, and fillCaches counts a null status as online.
OnlineRowsHold ==
    /\ laid["online"] <= Cardinality(cache["online"])
    /\ \A id \in cache["online"] : id \in contactIds /\ isOnline(id, icq)

\* With the slots connected, a section open after the list was announced
\* has been laid out since: every contact is in one of the sections
\* (contactListUpdated invalidates nothing and relies on rowCount refilling).
AnnouncedContactsHaveRows ==
    wired /\ stage = "announced" /\ (\E s \in Section : laid[s] # Shut)
        => contactIds = cache["online"] \cup cache["offline"]
=============================================================================
