------------------------------ MODULE ChangeFeed ------------------------------
(***************************************************************************)
(* What the server promises its subscribers, with no notion of files,      *)
(* maps, positions or passes: there is one list of access points, and      *)
(* while the feed is open the list changes by one access point at a time,  *)
(* each change being real and announced by exactly one event that names    *)
(* the access point and, for a change of parameters, the parameters that   *)
(* differ.  The list the feed opens with is not announced.                 *)
(***************************************************************************)
EXTENDS AccessPointsData

VARIABLES
  list,    \* the announced list
  phase,   \* "closed" until the feed opens, "over" once it has ended
  event    \* the last event

feedVars == <<list, phase, event>>

NoEvent == [id |-> "none"]

FeedInit ==
  /\ list = [s \in Ssid |-> Absent]
  /\ phase = "closed"
  /\ event = NoEvent

Load ==
  /\ phase = "closed"
  /\ list' \in Lists
  /\ UNCHANGED <<phase, event>>

Open ==
  /\ phase = "closed"
  /\ phase' = "open"
  /\ UNCHANGED <<list, event>>

Appear(s, p) ==
  /\ phase = "open"
  /\ list[s] = Absent
  /\ list' = [list EXCEPT ![s] = p]
  /\ event' = [id |-> "NEW_SSID", ssid |-> s]
  /\ UNCHANGED phase

Disappear(s) ==
  /\ phase = "open"
  /\ list[s] # Absent
  /\ list' = [list EXCEPT ![s] = Absent]
  /\ event' = [id |-> "REMOVED_SSID", ssid |-> s]
  /\ UNCHANGED phase

Change(s, p) ==
  /\ phase = "open"
  /\ list[s] # Absent
  /\ list[s] # p
  /\ list' = [list EXCEPT ![s] = p]
  /\ event' = [id |-> "CHANGED_SSID", ssid |-> s,
               names |-> {n \in {"SNR", "channel"} : list[s][n] # p[n]}]
  /\ UNCHANGED phase

Close ==
  /\ phase # "over"
  /\ phase' = "over"
  /\ UNCHANGED <<list, event>>

(***************************************************************************)
(* Once the feed is over its list is dropped, announced or not.            *)
(***************************************************************************)
Forget ==
  /\ phase = "over"
  /\ list' = [s \in Ssid |-> Absent]
  /\ UNCHANGED <<phase, event>>

FeedNext ==
  \/ Load \/ Open \/ Close \/ Forget
  \/ \E s \in Ssid :
       \/ Disappear(s)
       \/ \E p \in Params : Appear(s, p) \/ Change(s, p)

FeedSpec == FeedInit /\ [][FeedNext]_feedVars

=============================================================================
