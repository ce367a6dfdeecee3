------------------------------- MODULE Chats --------------------------------
(***************************************************************************)
(* The chats that the canister records while chats_resume is in force: a   *)
(* directory for each principal, a file for each new_chat.  new_chat opens *)
(* a file named for the second it is called in and deletes the oldest ones *)
(* over the limit; a run that succeeds writes the conversation to the      *)
(* newest file, whichever conversation that file was opened for.           *)
(*                                                                         *)
(* Files are known by their second.  That orders them as their times do,   *)
(* creation or last write: only the newest is ever written to.  A chat is  *)
(* the conversation its file was opened for and the one whose text it      *)
(* holds.  run_query changes nothing that outlives it, get_chats only      *)
(* reads, and a run that finds no file answers an error.  Faults of the    *)
(* file system are left out.                                               *)
(***************************************************************************)
EXTENDS Access, FiniteSetsExt

CONSTANTS
  MaxChats,   \* max_chats: files kept for one principal
  MaxTalks,   \* bound: calls of new_chat
  MaxSecond   \* bound: seconds that pass

ASSUME ChatsAssumption ==
  MaxChats \in Nat \ {0} /\ MaxTalks \in Nat /\ MaxSecond \in Nat

VARIABLES
  active,   \* DB_CHATS_ACTIVE
  now,      \* the clock, in seconds
  chats,    \* chats[p][s]: the file of principal p that was opened in second s
  begun,    \* calls of new_chat so far, which number the conversations
  latest,   \* history: the conversation of p's last new_chat, if recorded
  crossed   \* history: p ran another conversation while chats were recorded

vars == <<access, active, now, chats, begun, latest, crossed>>

NoTalk == 0
Other == -1   \* any conversation but latest[p]
Chat == [of : 0 .. MaxTalks, holds : -1 .. MaxTalks]

TypeOK ==
  /\ AccessTypeOK
  /\ active \in BOOLEAN /\ now \in 0 .. MaxSecond /\ begun \in 0 .. MaxTalks
  /\ chats = [p \in Principals |-> chats[p]]
  /\ \A p \in Principals : /\ DOMAIN chats[p] \subseteq 0 .. now
                           /\ chats[p] \in [DOMAIN chats[p] -> Chat]
  /\ latest \in [Principals -> 0 .. MaxTalks]
  /\ crossed \in [Principals -> BOOLEAN]

Init ==
  /\ AccessInit
  /\ active = FALSE /\ now = 0 /\ begun = 0
  /\ chats = [p \in Principals |-> [s \in {} |-> NoTalk]]
  /\ latest = [p \in Principals |-> NoTalk]
  /\ crossed = [p \in Principals |-> FALSE]

\* db_chats_new: a file of the same second is truncated.
Opened(saved, k) ==
  [s \in DOMAIN saved \cup {now} |->
     IF s = now THEN [of |-> k, holds |-> NoTalk] ELSE saved[s]]

\* Mutant of Kept: one file too many is deleted.
KeptTooFew(S) == {s \in S : Cardinality({t \in S : t > s}) < MaxChats - 1}

\* Mutant of Kept: the files are sorted the other way round.
KeptOldest(S) == {s \in S : Cardinality({t \in S : t < s}) < MaxChats}

\* db_chats_clean keeps the newest MaxChats files.
Kept(S) == {s \in S : Cardinality({t \in S : t > s}) < MaxChats}

Cleaned(saved) == [s \in Kept(DOMAIN saved) |-> saved[s]]

\* What new_chat does before it looks at its arguments.
RecordChat(p, k) ==
  chats' = IF active THEN [chats EXCEPT ![p] = Cleaned(Opened(@, k))] ELSE chats

\* new_chat
NewChat(p) ==
  /\ HasAdminUpdateOrWhitelisted(p)
  /\ begun < MaxTalks
  /\ begun' = begun + 1
  /\ RecordChat(p, begun')
  /\ latest' = [latest EXCEPT ![p] = IF active THEN begun' ELSE NoTalk]
  /\ UNCHANGED <<access, active, now, crossed>>

\* new_chat whose arguments are refused, after the chat was opened.
NewChatRefused(p) ==
  /\ HasAdminUpdateOrWhitelisted(p)
  /\ begun < MaxTalks
  /\ begun' = begun + 1
  /\ RecordChat(p, NoTalk)
  /\ latest' = [latest EXCEPT ![p] = NoTalk]
  /\ UNCHANGED <<access, active, now, crossed>>

\* Mutant of Newest: the comparison is the other way round.
Oldest(S) == Min(S)

\* db_chats_save_conversation looks for the file written last.
Newest(S) == Max(S)

\* run_update, when it succeeds and chats are recorded.
RunUpdate(p, k) ==
  /\ HasAdminUpdateOrWhitelisted(p)
  /\ active
  /\ DOMAIN chats[p] # {}
  /\ k \in {latest[p], Other} \ {NoTalk}
  /\ chats' = [chats EXCEPT ![p][Newest(DOMAIN chats[p])].holds = k]
  /\ crossed' = [crossed EXCEPT ![p] = @ \/ k = Other]
  /\ UNCHANGED <<access, active, now, begun, latest>>

\* chats_resume, chats_pause: the switch is one for all principals.
Switch(p, on) ==
  /\ HasAdminUpdateOrWhitelisted(p)
  /\ active' = on
  /\ UNCHANGED <<access, now, chats, begun, latest, crossed>>

Tick ==
  /\ now < MaxSecond
  /\ now' = now + 1
  /\ UNCHANGED <<access, active, chats, begun, latest, crossed>>

\* Files outlive an upgrade, the switch and the access rules do not.
Upgrade ==
  /\ AccessUpgrade
  /\ active' = FALSE
  /\ UNCHANGED <<now, chats, begun, latest, crossed>>

AdminCall == AccessCall /\ UNCHANGED <<active, now, chats, begun, latest, crossed>>

Next ==
  \/ \E p \in Principals :
       \/ NewChat(p) \/ NewChatRefused(p)
       \/ \E k \in -1 .. MaxTalks : RunUpdate(p, k)
       \/ \E on \in BOOLEAN : Switch(p, on)
  \/ AdminCall \/ Tick \/ Upgrade

Spec == Init /\ [][Next]_vars

-----------------------------------------------------------------------------
\* No principal ever has more than max_chats files, although new_chat opens one
\* before it deletes any, also when the call is then refused.
AtMostMaxChats ==
  \A p \in Principals : Cardinality(DOMAIN chats[p]) <= MaxChats

\* The conversation of a caller's last new_chat, if it was recorded, has the
\* newest of its files: the clean-up spares it even if all others are in use,
\* and no other call takes it away or comes before it.
LatestHasFile ==
  \A p \in Principals : latest[p] # NoTalk =>
    \E s \in DOMAIN chats[p] : /\ chats[p][s].of = latest[p]
                              /\ \A t \in DOMAIN chats[p] : t <= s

\* A saved chat is deleted only when max_chats newer ones remain.
LostOnlyToNewer ==
  [][\A p \in Principals : \A s \in DOMAIN chats[p] \ DOMAIN chats'[p] :
       Cardinality({t \in DOMAIN chats'[p] : t > s}) >= MaxChats]_vars

\* A caller that runs only the conversation of its last new_chat, and only if
\* that one was recorded, never finds its text in the file of another
\* conversation: through pauses by other callers, upgrades, refused calls and
\* several calls in one second.
OwnChat ==
  \A p \in Principals : ~crossed[p] =>
    \A s \in DOMAIN chats[p] : chats[p][s].holds \in {NoTalk, chats[p][s].of}

\* Chats of a principal change only while it is a controller, has AdminUpdate
\* or is admitted by the access level; AdminQuery is not enough, and no
\* level admits the anonymous principal.
OnlyAdmittedWrite ==
  [][\A p \in Principals : chats'[p] # chats[p] =>
       \/ p \in Controllers
       \/ level = 1 /\ p # Anonymous
       \/ [principal |-> p, role |-> "AdminUpdate"] \in roles]_vars

\* Whoever loses an assignment and is given none in its place has no admin
\* rights left, of either kind, unless it is a controller: revoking one
\* assignment revokes them all, however often a role was assigned before.
RevokeIsComplete ==
  [][\A a \in roles \ roles' :
       roles' \subseteq roles =>
         a.principal \in Controllers \/ ~HasAdminQueryRole(a.principal)']_vars
=============================================================================
