----------------------------- MODULE AccountData -----------------------------
(***************************************************************************)
(* What the server keeps for an account besides messages, files and        *)
(* sessions, and how it reaches its sessions: lifecycle events, device     *)
(* envelopes, donations, the guards of its requests, presence and wakes.   *)
(* These meet where an account goes and where a process stops: the first   *)
(* takes the mailbox and the devices, and leaves the events, the donations *)
(* and the guards; the second takes what is in memory.                     *)
(***************************************************************************)
EXTENDS LifecycleEvents, DeviceSync, Donations, RequestGuards, Outreach

accountVars == <<lifecycle, sync, money, guards, reach>>

AccountInit == LifecycleInit /\ SyncInit /\ DonationsInit /\ GuardsInit /\ OutreachInit

EventStep == LifecycleNext /\ UNCHANGED <<sync, money, guards, reach>>
EnvelopeStep == SyncNext /\ UNCHANGED <<lifecycle, money, guards, reach>>
DonationStep == DonationsNext /\ UNCHANGED <<lifecycle, sync, guards, reach>>
RequestStep == GuardsNext /\ UNCHANGED <<lifecycle, sync, money, reach>>
OutreachStep == OutreachNext /\ UNCHANGED <<lifecycle, sync, money, guards>>

\* deregister, and account_reset
AccountGone == PurgeMailbox /\ PurgeDevices /\ PurgeInbox /\ UNCHANGED <<money, guards>>

\* The first four are about one process, which stops together with some node.
ProcessStops ==
  /\ LifecycleCrash /\ SyncCrash /\ GuardsCrash /\ UNCHANGED money
  /\ \E n \in Nodes : NodeStops(n)

AccountNext ==
  \/ EventStep \/ EnvelopeStep \/ DonationStep \/ RequestStep \/ OutreachStep
  \/ AccountGone
  \/ ProcessStops

AccountSpec == AccountInit /\ [][AccountNext]_accountVars /\ SyncFairness

-----------------------------------------------------------------------------
(* Properties *)

\* The types of the five parts: among them that no bucket of tokens holds more
\* than its capacity or less than nothing.
AccountTypeOK ==
  LifecycleTypeOK /\ SyncTypeOK /\ DonationsTypeOK /\ GuardsTypeOK /\ OutreachTypeOK
=============================================================================
