---------------------------- MODULE ChatsProofs ----------------------------
(***************************************************************************)
(* Proofs about Chats and Access: types, the limit on saved chats, one     *)
(* role for each principal, and whose text a saved chat holds.             *)
(***************************************************************************)
EXTENDS Chats, FiniteSetTheorems, WellFoundedInduction, TLAPS

IInv == TypeOK /\ AtMostMaxChats /\ OneRoleEach /\ LatestHasFile /\ OwnChat

\* A set of seconds that is not empty has an earliest one.
LEMMA Earliest ==
  ASSUME NEW S \in SUBSET Nat, S # {}
  PROVE  \E s \in S : \A t \in S : s <= t
<1>1. OpToRel(<, Nat) = {r \in Nat \X Nat : r[1] < r[2]}
  BY DEF OpToRel
<1>2. \E s \in S : \A t \in S : ~(<<t, s>> \in OpToRel(<, Nat))
  BY NatLessThanWellFounded, WFMin
<1>3. PICK s \in S : \A t \in S : ~(<<t, s>> \in {r \in Nat \X Nat : r[1] < r[2]})
  BY <1>1, <1>2
<1>4. ASSUME NEW t \in S PROVE s <= t
  <2>1. <<t, s>> \in Nat \X Nat /\ s \in Nat /\ t \in Nat
    OBVIOUS
  <2> QED BY <1>3, <2>1
<1> QED BY <1>4

\* The clean-up leaves at most MaxChats of any finite set of files: all but the
\* earliest of those it keeps are newer than that one.
LEMMA KeptBound ==
  ASSUME NEW S \in SUBSET Nat, IsFiniteSet(S), MaxChats \in Nat \ {0}
  PROVE  Kept(S) \subseteq S /\ Cardinality(Kept(S)) <= MaxChats
<1> DEFINE Newer(s) == {t \in S : t > s}
<1>1. Kept(S) \subseteq S
  BY DEF Kept
<1>2. IsFiniteSet(Kept(S)) /\ Cardinality(Kept(S)) \in Nat
  BY <1>1, FS_Subset, FS_CardinalityType
<1>3. CASE Kept(S) = {}
  BY <1>1, <1>3, FS_EmptySet
<1>4. CASE Kept(S) # {}
  <2>1. PICK s \in Kept(S) : \A t \in Kept(S) : s <= t
    BY <1>1, <1>4, Earliest
  <2>2. IsFiniteSet(Newer(s)) /\ Cardinality(Newer(s)) \in Nat
    BY FS_Subset, FS_CardinalityType
  <2>3. Cardinality(Newer(s)) < MaxChats
    BY <2>1 DEF Kept
  <2>4. Kept(S) \ {s} \subseteq Newer(s)
    <3> SUFFICES ASSUME NEW t \in Kept(S), t # s PROVE t \in Newer(s)
      OBVIOUS
    <3>1. s \in Nat /\ t \in Nat /\ t \in S /\ s <= t
      BY <1>1, <2>1
    <3> QED BY <3>1
  <2>5. Cardinality(Kept(S) \ {s}) <= Cardinality(Newer(s))
    BY <2>2, <2>4, FS_Subset
  <2>6. Cardinality(Kept(S) \ {s}) = Cardinality(Kept(S)) - 1
    BY <1>2, <2>1, FS_RemoveElement
  <2> QED BY <1>1, <1>2, <2>2, <2>3, <2>5, <2>6
<1> QED BY <1>3, <1>4

\* The clean-up keeps the newest file.
LEMMA KeptNewest ==
  ASSUME NEW S \in SUBSET Nat, NEW s \in S, \A t \in S : t <= s,
         MaxChats \in Nat \ {0}
  PROVE  s \in Kept(S)
<1>1. \A t \in S : ~(t > s)
  <2> TAKE t \in S
  <2>1. t \in Nat /\ s \in Nat /\ t <= s
    OBVIOUS
  <2> QED BY <2>1
<1>2. {t \in S : t > s} = {}
  BY <1>1
<1> QED BY <1>2, FS_EmptySet DEF Kept

\* What new_chat leaves in the directory of its caller.
LEMMA RecordedChat ==
  ASSUME TypeOK, NEW p \in Principals, NEW k \in 0 .. MaxTalks
  PROVE  LET saved == Cleaned(Opened(chats[p], k))
         IN  /\ DOMAIN saved \subseteq 0 .. now
             /\ saved \in [DOMAIN saved -> Chat]
             /\ Cardinality(DOMAIN saved) <= MaxChats
             /\ now \in DOMAIN saved
             /\ saved[now] = [of |-> k, holds |-> NoTalk]
             /\ \A s \in DOMAIN saved \ {now} :
                  s \in DOMAIN chats[p] /\ saved[s] = chats[p][s]
<1> DEFINE files == DOMAIN chats[p] \cup {now}
           saved == Cleaned(Opened(chats[p], k))
<1>1. now \in Nat /\ MaxChats \in Nat \ {0} /\ MaxTalks \in Nat
  BY ChatsAssumption DEF TypeOK
<1>2. files \subseteq 0 .. now
  BY <1>1 DEF TypeOK
<1>3. IsFiniteSet(files)
  <2>1. IsFiniteSet(0 .. now)
    BY <1>1, FS_Interval
  <2>2. files \in SUBSET (0 .. now)
    BY <1>2
  <2> HIDE DEF files
  <2> QED BY <2>1, <2>2, FS_Subset
<1>4. Kept(files) \subseteq files /\ Cardinality(Kept(files)) <= MaxChats
  BY <1>1, <1>2, <1>3, KeptBound
<1>5. now \in Kept(files)
  BY <1>1, <1>2, KeptNewest
<1>6. DOMAIN Opened(chats[p], k) = files
  BY DEF Opened
<1>7. DOMAIN saved = Kept(files)
  BY <1>6 DEF Cleaned
<1>8. \A s \in Kept(files) :
         saved[s] = IF s = now THEN [of |-> k, holds |-> NoTalk] ELSE chats[p][s]
  BY <1>4, <1>6, <1>7 DEF Cleaned, Opened
<1>9. saved = [s \in Kept(files) |-> saved[s]]
  BY <1>6 DEF Cleaned
<1>10. [of |-> k, holds |-> NoTalk] \in Chat
  BY <1>1 DEF Chat, NoTalk
<1>11. \A s \in Kept(files) : saved[s] \in Chat
  BY <1>4, <1>8, <1>10 DEF TypeOK
<1>12. saved \in [DOMAIN saved -> Chat]
  BY <1>7, <1>9, <1>11
<1> HIDE DEF saved, files
<1> QED BY <1>2, <1>4, <1>5, <1>7, <1>8, <1>12 DEF files, saved

-----------------------------------------------------------------------------
(* One lemma for each kind of step *)

\* No call on the access rules breaks their types or gives a second role.
LEMMA AccessKeeps ==
  ASSUME AccessTypeOK, OneRoleEach, AccessCall
  PROVE  AccessTypeOK' /\ OneRoleEach'
<1>1. ASSUME NEW caller, NEW l \in Levels, SetAccess(caller, l)
      PROVE  AccessTypeOK' /\ OneRoleEach'
  <2>1. l \in Nat /\ l <= 1 /\ level' = l /\ roles' = roles
    BY <1>1, AccessAssumption DEF SetAccess
  <2> QED BY <2>1 DEF AccessTypeOK, OneRoleEach
<1>2. ASSUME NEW caller, NEW p \in Grantees, NEW r \in AdminRoles,
             AssignAdminRole(caller, p, r)
      PROVE  AccessTypeOK' /\ OneRoleEach'
  <2>1. [principal |-> p, role |-> r] \in Assignments
    BY AccessAssumption DEF Assignments
  <2>2. /\ roles' = (roles \ {a \in roles : a.principal = p})
                       \cup {[principal |-> p, role |-> r]}
        /\ level' = level
    BY <1>2 DEF AssignAdminRole, AssignmentsOf
  <2>3. OneRoleEach'
    BY <2>2 DEF OneRoleEach
  <2> QED BY <2>1, <2>2, <2>3 DEF AccessTypeOK
<1>3. ASSUME NEW caller, NEW p \in Grantees, RevokeAdminRole(caller, p)
      PROVE  AccessTypeOK' /\ OneRoleEach'
  BY <1>3 DEF RevokeAdminRole, AssignmentsOf, AccessTypeOK, OneRoleEach
<1> QED BY <1>1, <1>2, <1>3 DEF AccessCall

\* A call of new_chat keeps everything, whether it then answers or refuses.
LEMMA RecordKeeps ==
  ASSUME IInv, NEW p \in Principals, NEW k \in 0 .. MaxTalks, NEW l \in {NoTalk, k},
         RecordChat(p, k),
         latest' = [latest EXCEPT ![p] = IF active THEN l ELSE NoTalk],
         begun' \in 0 .. MaxTalks,
         UNCHANGED <<access, active, now, crossed>>
  PROVE  IInv'
<1> DEFINE saved == Cleaned(Opened(chats[p], k))
<1>1. /\ TypeOK /\ AtMostMaxChats /\ OneRoleEach /\ LatestHasFile /\ OwnChat
      /\ level' = level /\ roles' = roles /\ active' = active /\ now' = now
      /\ crossed' = crossed
  BY DEF IInv, access
<1>2. OneRoleEach' /\ AccessTypeOK'
  BY <1>1 DEF OneRoleEach, AccessTypeOK, TypeOK
<1>3. /\ DOMAIN saved \subseteq 0 .. now
      /\ saved \in [DOMAIN saved -> Chat]
      /\ Cardinality(DOMAIN saved) <= MaxChats
      /\ now \in DOMAIN saved
      /\ saved[now] = [of |-> k, holds |-> NoTalk]
      /\ \A s \in DOMAIN saved \ {now} :
           s \in DOMAIN chats[p] /\ saved[s] = chats[p][s]
  BY <1>1, RecordedChat
<1> HIDE DEF saved
<1>4. latest \in [Principals -> 0 .. MaxTalks] /\ NoTalk \in 0 .. MaxTalks
  BY <1>1, ChatsAssumption DEF TypeOK, NoTalk
<1>5. latest' \in [Principals -> 0 .. MaxTalks]
  BY <1>4
<1>6. CASE active
  <2>1. chats' = [chats EXCEPT ![p] = saved]
    BY <1>6 DEF RecordChat, saved
  <2>2. chats = [q \in Principals |-> chats[q]]
    BY <1>1 DEF TypeOK
  <2>3. /\ chats' = [q \in Principals |-> chats'[q]]
        /\ chats'[p] = saved
        /\ \A q \in Principals \ {p} : chats'[q] = chats[q]
    BY <2>1, <2>2
  <2>4. ASSUME NEW q \in Principals
        PROVE  DOMAIN chats'[q] \subseteq 0 .. now /\ chats'[q] \in [DOMAIN chats'[q] -> Chat]
    BY <1>1, <1>3, <2>3 DEF TypeOK
  <2>5. TypeOK'
    BY <1>1, <1>2, <1>5, <2>3, <2>4 DEF TypeOK
  <2>6. AtMostMaxChats'
    BY <1>1, <1>3, <2>3 DEF AtMostMaxChats
  <2>7. LatestHasFile'
    <3> SUFFICES ASSUME NEW q \in Principals, latest'[q] # NoTalk
                 PROVE  \E s \in DOMAIN chats'[q] :
                          /\ chats'[q][s].of = latest'[q]
                          /\ \A t \in DOMAIN chats'[q] : t <= s
      BY DEF LatestHasFile
    <3>1. CASE q = p
      <4>1. latest'[q] = k
        BY <1>4, <1>6, <3>1
      <4>2. now \in Nat /\ \A t \in DOMAIN saved : t <= now
        BY <1>1, <1>3 DEF TypeOK
      <4> QED BY <1>3, <2>3, <3>1, <4>1, <4>2
    <3>2. CASE q # p
      <4>1. latest'[q] = latest[q] /\ chats'[q] = chats[q]
        BY <1>4, <2>3, <3>2
      <4> QED BY <1>1, <4>1 DEF LatestHasFile
    <3> QED BY <3>1, <3>2
  <2>8. OwnChat'
    <3> SUFFICES ASSUME NEW q \in Principals, ~crossed[q],
                        NEW s \in DOMAIN chats'[q]
                 PROVE  chats'[q][s].holds \in {NoTalk, chats'[q][s].of}
      BY <1>1 DEF OwnChat
    <3>1. CASE q # p \/ s # now
      BY <1>1, <1>3, <2>3, <3>1 DEF OwnChat
    <3>2. CASE q = p /\ s = now
      BY <1>3, <2>3, <3>2
    <3> QED BY <3>1, <3>2
  <2> QED BY <1>2, <2>5, <2>6, <2>7, <2>8 DEF IInv
<1>7. CASE ~active
  <2>1. /\ chats' = chats
        /\ \A q \in Principals : latest'[q] \in {NoTalk, latest[q]}
    BY <1>4, <1>7 DEF RecordChat
  <2>2. TypeOK'
    BY <1>1, <1>2, <1>5, <2>1 DEF TypeOK
  <2>3. AtMostMaxChats' /\ OwnChat'
    BY <1>1, <2>1 DEF AtMostMaxChats, OwnChat
  <2>4. LatestHasFile'
    BY <1>1, <2>1 DEF LatestHasFile
  <2> QED BY <1>2, <2>2, <2>3, <2>4 DEF IInv
<1> QED BY <1>6, <1>7

\* Only the newest file changes, and to the conversation that is run.
LEMMA RunKeeps ==
  ASSUME IInv, NEW p \in Principals, NEW k \in -1 .. MaxTalks, RunUpdate(p, k)
  PROVE  IInv'
<1> DEFINE n == Newest(DOMAIN chats[p])
<1>1. /\ TypeOK /\ AtMostMaxChats /\ OneRoleEach /\ LatestHasFile /\ OwnChat
      /\ level' = level /\ roles' = roles /\ active' = active /\ now' = now
      /\ begun' = begun /\ latest' = latest
      /\ k \in {latest[p], Other} /\ k # NoTalk
      /\ crossed' = [crossed EXCEPT ![p] = @ \/ k = Other]
      /\ chats' = [chats EXCEPT ![p][n].holds = k]
  BY DEF IInv, RunUpdate, access
<1> HIDE DEF n
<1>2. /\ chats = [q \in Principals |-> chats[q]]
      /\ chats[p] \in [DOMAIN chats[p] -> Chat]
      /\ crossed \in [Principals -> BOOLEAN]
  BY <1>1 DEF TypeOK
<1>3. /\ chats' = [q \in Principals |-> chats'[q]]
      /\ chats'[p] = [chats[p] EXCEPT ![n].holds = k]
      /\ \A q \in Principals \ {p} : chats'[q] = chats[q]
  BY <1>1, <1>2
<1>4. /\ DOMAIN chats'[p] = DOMAIN chats[p]
      /\ chats'[p] = [s \in DOMAIN chats[p] |-> chats'[p][s]]
      /\ \A s \in DOMAIN chats[p] :
           /\ s # n => chats'[p][s] = chats[p][s]
           /\ s = n => chats'[p][s] = [chats[p][s] EXCEPT !.holds = k]
  BY <1>2, <1>3
<1>5. \A s \in DOMAIN chats[p] :
         /\ chats'[p][s] \in Chat
         /\ chats'[p][s].of = chats[p][s].of
         /\ s = n => chats'[p][s].holds = k
         /\ s # n => chats'[p][s].holds = chats[p][s].holds
  <2> TAKE s \in DOMAIN chats[p]
  <2>1. chats[p][s] \in Chat
    BY <1>2
  <2> QED BY <2>1, <1>4 DEF Chat
<1>6. TypeOK'
  <2>1. crossed' \in [Principals -> BOOLEAN]
    BY <1>1, <1>2
  <2>2. \A q \in Principals : /\ DOMAIN chats'[q] \subseteq 0 .. now
                              /\ chats'[q] \in [DOMAIN chats'[q] -> Chat]
    BY <1>1, <1>3, <1>4, <1>5 DEF TypeOK
  <2> QED BY <1>1, <1>3, <2>1, <2>2 DEF TypeOK, AccessTypeOK
<1>7. AtMostMaxChats' /\ OneRoleEach'
  BY <1>1, <1>3, <1>4 DEF AtMostMaxChats, OneRoleEach
<1>8. LatestHasFile'
  <2> SUFFICES ASSUME NEW q \in Principals, latest[q] # NoTalk
               PROVE  \E s \in DOMAIN chats'[q] :
                        /\ chats'[q][s].of = latest[q]
                        /\ \A t \in DOMAIN chats'[q] : t <= s
    BY <1>1 DEF LatestHasFile
  <2>1. PICK s \in DOMAIN chats[q] : /\ chats[q][s].of = latest[q]
                                     /\ \A t \in DOMAIN chats[q] : t <= s
    BY <1>1 DEF LatestHasFile
  <2> QED BY <2>1, <1>3, <1>4, <1>5
<1>9. OwnChat'
  <2> SUFFICES ASSUME NEW q \in Principals, ~crossed'[q], NEW s \in DOMAIN chats'[q]
               PROVE  chats'[q][s].holds \in {NoTalk, chats'[q][s].of}
    BY DEF OwnChat
  <2>1. CASE q # p
    BY <2>1, <1>1, <1>2, <1>3 DEF OwnChat
  <2>2. CASE q = p
    <3>1. k # Other /\ k = latest[p] /\ ~crossed[p]
      BY <2>2, <1>1, <1>2
    <3>2. PICK m \in DOMAIN chats[p] : /\ chats[p][m].of = latest[p]
                                       /\ \A t \in DOMAIN chats[p] : t <= m
      BY <3>1, <1>1 DEF LatestHasFile
    <3>3. n \in DOMAIN chats[p] /\ \A t \in DOMAIN chats[p] : t <= n
      BY <3>2 DEF n, Newest, Max
    <3>4. n = m
      <4>1. n <= m /\ m <= n /\ n \in Int /\ m \in Int
        BY <3>2, <3>3, <1>1 DEF TypeOK
      <4> QED BY <4>1
    <3> QED BY <2>2, <3>1, <3>2, <3>4, <1>1, <1>4, <1>5 DEF OwnChat
  <2> QED BY <2>1, <2>2
<1> QED BY <1>6, <1>7, <1>8, <1>9 DEF IInv

\* No other step touches a chat.
LEMMA OthersKeep ==
  ASSUME IInv,
         \/ \E p \in Principals, on \in BOOLEAN : Switch(p, on)
         \/ AdminCall \/ Tick \/ Upgrade \/ UNCHANGED vars
  PROVE  IInv' /\ chats' = chats
<1>1. TypeOK /\ AtMostMaxChats /\ OneRoleEach /\ LatestHasFile /\ OwnChat
  BY DEF IInv
<1>2. /\ chats' = chats /\ begun' = begun /\ latest' = latest /\ crossed' = crossed
      /\ active' \in BOOLEAN /\ now' \in 0 .. MaxSecond /\ now <= now'
  <2>1. now \in Nat /\ now \in 0 .. MaxSecond /\ MaxSecond \in Nat /\ active \in BOOLEAN
    BY <1>1, ChatsAssumption DEF TypeOK
  <2>2. CASE \E p \in Principals, on \in BOOLEAN : Switch(p, on)
    <3>1. PICK p \in Principals, on \in BOOLEAN : Switch(p, on)
      BY <2>2
    <3>2. active' = on /\ UNCHANGED <<access, now, chats, begun, latest, crossed>>
      BY <3>1 DEF Switch
    <3>3. active' \in BOOLEAN
      BY <3>2, Zenon
    <3>4. /\ chats' = chats /\ begun' = begun /\ latest' = latest /\ crossed' = crossed
          /\ now' = now
      BY <3>2
    <3>5. now' \in 0 .. MaxSecond /\ now <= now'
      BY <2>1, <3>4
    <3> QED BY <3>3, <3>4, <3>5, Zenon
  <2>3. CASE AdminCall
    BY <2>1, <2>3 DEF AdminCall
  <2>4. CASE Upgrade
    <3>1. active' \in BOOLEAN
      BY <2>4, Zenon DEF Upgrade
    <3>2. UNCHANGED <<now, chats, begun, latest, crossed>>
      BY <2>4 DEF Upgrade
    <3> QED BY <2>1, <3>1, <3>2
  <2>5. CASE Tick
    BY <2>1, <2>5 DEF Tick
  <2>6. CASE UNCHANGED vars
    BY <2>1, <2>6 DEF vars
  <2> QED BY <2>2, <2>3, <2>4, <2>5, <2>6
<1>3. AccessTypeOK' /\ OneRoleEach'
  <2>1. CASE access' = access
    BY <1>1, <2>1 DEF access, TypeOK, AccessTypeOK, OneRoleEach
  <2>2. CASE AdminCall
    BY <1>1, <2>2, AccessKeeps DEF AdminCall, TypeOK
  <2>3. CASE Upgrade
    BY <2>3 DEF Upgrade, AccessUpgrade, AccessTypeOK, OneRoleEach
  <2> QED BY <2>1, <2>2, <2>3 DEF Switch, Tick, vars
<1>4. TypeOK'
  <2>1. \A p \in Principals : DOMAIN chats[p] \subseteq 0 .. now'
    BY <1>1, <1>2 DEF TypeOK
  <2> QED BY <1>1, <1>2, <1>3, <2>1 DEF TypeOK
<1>5. AtMostMaxChats' /\ LatestHasFile' /\ OwnChat'
  BY <1>1, <1>2 DEF AtMostMaxChats, LatestHasFile, OwnChat
<1> QED BY <1>2, <1>3, <1>4, <1>5 DEF IInv

\* The initial state, and every step.
LEMMA InitInv == Init => IInv
<1> SUFFICES ASSUME Init PROVE IInv
  OBVIOUS
<1>1. /\ level = 0 /\ roles = {} /\ active = FALSE /\ now = 0 /\ begun = 0
      /\ chats = [p \in Principals |-> [s \in {} |-> NoTalk]]
      /\ latest = [p \in Principals |-> NoTalk]
      /\ crossed = [p \in Principals |-> FALSE]
  BY DEF Init, AccessInit
<1>2. \A p \in Principals : chats[p] = [s \in {} |-> NoTalk] /\ DOMAIN chats[p] = {}
  BY <1>1
<1>3. \A p \in Principals : chats[p] \in [DOMAIN chats[p] -> Chat]
  BY <1>2
<1>4. TypeOK
  <2>1. AccessTypeOK
    BY <1>1 DEF AccessTypeOK
  <2>2. active \in BOOLEAN
    BY <1>1, Zenon
  <2>3. now \in 0 .. MaxSecond /\ begun \in 0 .. MaxTalks
    BY <1>1, ChatsAssumption
  <2>4. /\ latest \in [Principals -> 0 .. MaxTalks]
        /\ crossed \in [Principals -> BOOLEAN]
    BY <1>1, ChatsAssumption DEF NoTalk
  <2>5. chats = [p \in Principals |-> chats[p]]
    BY <1>1
  <2>6. \A p \in Principals : DOMAIN chats[p] \subseteq 0 .. now
    BY <1>2
  <2> QED BY <1>3, <2>1, <2>2, <2>3, <2>4, <2>5, <2>6 DEF TypeOK
<1>5. AtMostMaxChats
  <2>1. Cardinality({}) = 0 /\ 0 <= MaxChats
    BY FS_EmptySet, ChatsAssumption
  <2> QED BY <1>2, <2>1 DEF AtMostMaxChats
<1>6. OneRoleEach /\ LatestHasFile /\ OwnChat
  BY <1>1, <1>2 DEF OneRoleEach, LatestHasFile, OwnChat
<1> QED BY <1>4, <1>5, <1>6 DEF IInv

LEMMA NextInv == IInv /\ [Next]_vars => IInv'
<1> SUFFICES ASSUME IInv, [Next]_vars PROVE IInv'
  OBVIOUS
<1>1. begun \in 0 .. MaxTalks /\ MaxTalks \in Nat /\ NoTalk \in 0 .. MaxTalks
  BY ChatsAssumption DEF IInv, TypeOK, NoTalk
<1>2. ASSUME NEW p \in Principals, NewChat(p) PROVE IInv'
  <2>1. begun' \in 0 .. MaxTalks /\ RecordChat(p, begun')
    BY <1>1, <1>2 DEF NewChat
  <2>2. /\ latest' = [latest EXCEPT ![p] = IF active THEN begun' ELSE NoTalk]
        /\ UNCHANGED <<access, active, now, crossed>>
    BY <1>2 DEF NewChat
  <2> QED BY <2>1, <2>2, RecordKeeps
<1>3. ASSUME NEW p \in Principals, NewChatRefused(p) PROVE IInv'
  <2>1. begun' \in 0 .. MaxTalks /\ RecordChat(p, NoTalk)
    BY <1>1, <1>3 DEF NewChatRefused
  <2>2. /\ latest' = [latest EXCEPT ![p] = IF active THEN NoTalk ELSE NoTalk]
        /\ UNCHANGED <<access, active, now, crossed>>
    BY <1>3 DEF NewChatRefused
  <2> QED BY <1>1, <2>1, <2>2, RecordKeeps
<1>4. ASSUME NEW p \in Principals, NEW k \in -1 .. MaxTalks, RunUpdate(p, k)
      PROVE  IInv'
  BY <1>4, RunKeeps
<1>5. CASE \/ \E p \in Principals, on \in BOOLEAN : Switch(p, on)
           \/ AdminCall \/ Tick \/ Upgrade \/ UNCHANGED vars
  BY <1>5, OthersKeep
<1> QED BY <1>2, <1>3, <1>4, <1>5 DEF Next

LEMMA Invariance == Spec => []IInv
<1> QED BY InitInv, NextInv, PTL DEF Spec

\* The next-state relation, sorted by what a step does to saved chats.
LEMMA ChatSteps ==
  ASSUME IInv, [Next]_vars
  PROVE  \/ chats' = chats
         \/ \E p \in Principals, k \in 0 .. MaxTalks :
              /\ HasAdminUpdateOrWhitelisted(p)
              /\ chats' = [chats EXCEPT ![p] = Cleaned(Opened(@, k))]
         \/ \E p \in Principals, k \in -1 .. MaxTalks : RunUpdate(p, k)
<1>1. begun \in 0 .. MaxTalks /\ MaxTalks \in Nat /\ NoTalk \in 0 .. MaxTalks
  BY ChatsAssumption DEF IInv, TypeOK, NoTalk
<1>2. ASSUME NEW p \in Principals, NewChat(p) \/ NewChatRefused(p)
      PROVE  \/ chats' = chats
             \/ \E k \in 0 .. MaxTalks :
                  /\ HasAdminUpdateOrWhitelisted(p)
                  /\ chats' = [chats EXCEPT ![p] = Cleaned(Opened(@, k))]
  <2>1. /\ HasAdminUpdateOrWhitelisted(p)
        /\ \E k \in 0 .. MaxTalks : RecordChat(p, k)
    BY <1>1, <1>2 DEF NewChat, NewChatRefused
  <2> QED BY <2>1 DEF RecordChat
<1>3. CASE \/ \E p \in Principals, on \in BOOLEAN : Switch(p, on)
           \/ AdminCall \/ Tick \/ Upgrade \/ UNCHANGED vars
  BY <1>3, OthersKeep
<1> QED BY <1>2, <1>3 DEF Next

\* Of a finite set of seconds that is not empty, one is the latest.
LEMMA LatestOf ==
  ASSUME NEW n \in Nat, NEW S \in SUBSET (0 .. n), S # {}
  PROVE  \E s \in S : \A t \in S : t <= s
<1> DEFINE Back == {n - s : s \in S}
<1>1. Back \in SUBSET Nat /\ Back # {}
  <2>1. \A s \in S : n - s \in Nat
    <3> TAKE s \in S
    <3>1. s \in Nat /\ s <= n
      OBVIOUS
    <3> QED BY <3>1
  <2> QED BY <2>1
<1>2. PICK b \in Back : \A c \in Back : b <= c
  <2> HIDE DEF Back
  <2> QED BY <1>1, Earliest
<1>3. PICK s \in S : b = n - s
  BY <1>2
<1>4. ASSUME NEW t \in S PROVE t <= s
  <2>1. b <= n - t /\ s \in Nat /\ t \in Nat
    BY <1>2
  <2> QED BY <1>3, <2>1
<1> QED BY <1>4

\* The clean-up takes a file away only if MaxChats newer ones are kept: those
\* newer than the latest of the files it takes away.
LEMMA LostBound ==
  ASSUME NEW n \in Nat, NEW S \in SUBSET (0 .. n), NEW s \in S \ Kept(S),
         MaxChats \in Nat \ {0}
  PROVE  Cardinality({t \in Kept(S) : t > s}) >= MaxChats
<1> DEFINE Lost == S \ Kept(S)
           Newer(m) == {t \in S : t > m}
<1>1. IsFiniteSet(S)
  <2>1. IsFiniteSet(0 .. n)
    BY FS_Interval
  <2> QED BY <2>1, FS_Subset
<1>2. PICK m \in Lost : \A t \in Lost : t <= m
  <2>1. Lost \in SUBSET (0 .. n) /\ Lost # {}
    OBVIOUS
  <2> HIDE DEF Lost
  <2> QED BY <2>1, LatestOf
<1>3. IsFiniteSet(Newer(m)) /\ Cardinality(Newer(m)) \in Nat
  BY <1>1, FS_Subset, FS_CardinalityType
<1>4. Cardinality(Newer(m)) >= MaxChats
  BY <1>2, <1>3 DEF Kept
<1>5. Newer(m) \subseteq {t \in Kept(S) : t > s}
  <2> SUFFICES ASSUME NEW t \in S, t > m PROVE t \in Kept(S) /\ t > s
    BY DEF Kept
  <2>1. s \in Int /\ t \in Int /\ m \in Int /\ s <= m
    BY <1>2
  <2>2. t \notin Lost
    BY <1>2, <2>1
  <2> QED BY <2>1, <2>2
<1>6. IsFiniteSet({t \in Kept(S) : t > s})
  <2>1. {t \in Kept(S) : t > s} \in SUBSET S
    BY DEF Kept
  <2> QED BY <1>1, <2>1, FS_Subset
<1> HIDE DEF Newer
<1>7. /\ Cardinality(Newer(m)) <= Cardinality({t \in Kept(S) : t > s})
      /\ Cardinality({t \in Kept(S) : t > s}) \in Nat
  BY <1>5, <1>6, FS_Subset, FS_CardinalityType
<1> QED BY <1>3, <1>4, <1>7

-----------------------------------------------------------------------------
(* Theorems *)

\* The variables are of the declared types after any calls, for any principals
\* and any limit on chats.
THEOREM ChatsTypeCorrect == Spec => []TypeOK
<1> QED BY Invariance, PTL DEF IInv

\* max_chats bounds the files of every principal (db_chats_clean).
THEOREM ChatsAreBounded == Spec => []AtMostMaxChats
<1> QED BY Invariance, PTL DEF IInv

\* assignAdminRole never leaves two assignments for one principal.
THEOREM RolesAreUnique == Spec => []OneRoleEach
<1> QED BY Invariance, PTL DEF IInv

\* db_chats_clean spares the conversation that new_chat has just begun.
THEOREM LatestIsSaved == Spec => []LatestHasFile
<1> QED BY Invariance, PTL DEF IInv

\* db_chats_save_conversation, which takes the newest file, takes the right one
\* for every caller that runs only its last, recorded conversation.
THEOREM ChatsAreOwn == Spec => []OwnChat
<1> QED BY Invariance, PTL DEF IInv

\* A chat that new_chat deletes is followed by max_chats newer ones.
THEOREM ChatsGoInOrder == Spec => LostOnlyToNewer
<1> DEFINE Lost == \A p \in Principals : \A s \in DOMAIN chats[p] \ DOMAIN chats'[p] :
                     Cardinality({t \in DOMAIN chats'[p] : t > s}) >= MaxChats
<1>1. IInv /\ [Next]_vars => [Lost]_vars
  <2> SUFFICES ASSUME IInv, [Next]_vars,
                      NEW p \in Principals, NEW s \in DOMAIN chats[p],
                      s \notin DOMAIN chats'[p]
               PROVE  Cardinality({t \in DOMAIN chats'[p] : t > s}) >= MaxChats
    OBVIOUS
  <2>1. /\ chats = [q \in Principals |-> chats[q]]
        /\ DOMAIN chats[p] \subseteq 0 .. now /\ now \in Nat
        /\ MaxChats \in Nat \ {0}
    BY ChatsAssumption DEF IInv, TypeOK
  <2>2. CASE chats' = chats
    BY <2>2
  <2>3. ASSUME NEW q \in Principals, NEW k \in 0 .. MaxTalks,
               chats' = [chats EXCEPT ![q] = Cleaned(Opened(@, k))]
        PROVE  Cardinality({t \in DOMAIN chats'[p] : t > s}) >= MaxChats
    <3> DEFINE files == DOMAIN chats[p] \cup {now}
    <3>1. q = p /\ chats'[p] = Cleaned(Opened(chats[p], k))
      BY <2>1, <2>3
    <3>2. DOMAIN chats'[p] = Kept(files)
      BY <3>1 DEF Cleaned, Opened
    <3>3. files \in SUBSET (0 .. now) /\ s \in files
      BY <2>1
    <3> HIDE DEF files
    <3> QED BY <2>1, <3>2, <3>3, LostBound
  <2>4. ASSUME NEW q \in Principals, NEW k \in -1 .. MaxTalks, RunUpdate(q, k)
        PROVE  FALSE
    <3>1. chats' = [chats EXCEPT ![q][Newest(DOMAIN chats[q])].holds = k]
      BY <2>4 DEF RunUpdate
    <3>2. DOMAIN chats'[p] = DOMAIN chats[p]
      BY <2>1, <3>1
    <3> QED BY <3>2
  <2> QED BY <2>2, <2>3, <2>4, ChatSteps
<1> QED BY <1>1, Invariance, PTL DEF Spec, LostOnlyToNewer

\* Only callers that the access rules admit to update calls change their chats:
\* neither AdminQuery nor any access level lets another one in.
THEOREM OnlyAdmittedWriteChats == Spec => OnlyAdmittedWrite
<1> DEFINE Admitted == \A p \in Principals : chats'[p] # chats[p] =>
                         \/ p \in Controllers
                         \/ level = 1 /\ p # Anonymous
                         \/ [principal |-> p, role |-> "AdminUpdate"] \in roles
<1>1. IInv /\ [Next]_vars => [Admitted]_vars
  <2> SUFFICES ASSUME IInv, [Next]_vars, NEW p \in Principals, chats'[p] # chats[p]
               PROVE  \/ p \in Controllers
                      \/ level = 1 /\ p # Anonymous
                      \/ [principal |-> p, role |-> "AdminUpdate"] \in roles
    OBVIOUS
  <2>1. chats = [q \in Principals |-> chats[q]] /\ roles \subseteq Assignments
    BY DEF IInv, TypeOK, AccessTypeOK
  <2>2. \A q \in Principals \ {p} : \A x : [chats EXCEPT ![q] = x][p] = chats[p]
    BY <2>1
  <2>3. HasAdminUpdateOrWhitelisted(p)
    <3>1. ASSUME NEW q \in Principals, NEW k \in -1 .. MaxTalks, RunUpdate(q, k)
          PROVE  HasAdminUpdateOrWhitelisted(p)
      <4>1. /\ HasAdminUpdateOrWhitelisted(q)
            /\ chats' = [chats EXCEPT ![q][Newest(DOMAIN chats[q])].holds = k]
        BY <3>1 DEF RunUpdate
      <4>2. q = p
        BY <2>1, <4>1
      <4> QED BY <4>1, <4>2
    <3>2. ASSUME NEW q \in Principals, NEW k \in 0 .. MaxTalks,
                 HasAdminUpdateOrWhitelisted(q),
                 chats' = [chats EXCEPT ![q] = Cleaned(Opened(@, k))]
          PROVE  HasAdminUpdateOrWhitelisted(p)
      <4>1. q = p
        BY <2>2, <3>2
      <4> QED BY <3>2, <4>1
    <3> QED BY <3>1, <3>2, ChatSteps
  <2>4. ASSUME NEW a \in AssignmentsOf(p), a.role = "AdminUpdate"
        PROVE  [principal |-> p, role |-> "AdminUpdate"] \in roles
    <3>1. a \in roles /\ a \in Assignments /\ a.principal = p
      BY <2>1 DEF AssignmentsOf
    <3>2. a = [principal |-> p, role |-> "AdminUpdate"]
      BY <2>4, <3>1 DEF Assignments
    <3> QED BY <3>1, <3>2
  <2> QED BY <2>3, <2>4 DEF HasAdminUpdateOrWhitelisted, HasAdminUpdateRole, IsCallerWhitelisted
<1> QED BY <1>1, Invariance, PTL DEF Spec, OnlyAdmittedWrite

\* revokeAdminRole, which erases one assignment, leaves its principal with none.
THEOREM RevokedAdminsAreOut == Spec => RevokeIsComplete
<1> DEFINE Out == \A a \in roles \ roles' : roles' \subseteq roles =>
                    a.principal \in Controllers \/ ~HasAdminQueryRole(a.principal)'
<1>1. IInv /\ [Next]_vars => [Out]_vars
  <2> SUFFICES ASSUME IInv, [Next]_vars, NEW a \in roles \ roles', roles' \subseteq roles,
                      a.principal \notin Controllers
               PROVE  ~HasAdminQueryRole(a.principal)'
    OBVIOUS
  <2>1. roles \subseteq Assignments /\ OneRoleEach
    BY DEF IInv, TypeOK, AccessTypeOK
  <2>2. \A b \in roles' : b.principal # a.principal
    BY <2>1 DEF OneRoleEach
  <2> QED BY <2>2 DEF HasAdminQueryRole, AssignmentsOf
<1> QED BY <1>1, Invariance, PTL DEF Spec, RevokeIsComplete
=============================================================================
