-------------------------- MODULE CameraSourceProofs --------------------------
(***************************************************************************)
(* Proofs about the two parts of the path from the portal to a camera's    *)
(* frames: Portal, the sessions that captures are opened with, for any     *)
(* processes, cameras, restarts and troubles, and CameraReader, the thread *)
(* that reads a capture or falls back to clips, for any number and length  *)
(* of clips, any of them that open, and any limits.                        *)
(*                                                                         *)
(* The two share no state. No camera's reader knows of a session: it sees  *)
(* a source that is served or is not.                                      *)
(***************************************************************************)
EXTENDS Portal, CameraReader, TLAPS

-----------------------------------------------------------------------------
(* The portal: the inductive invariant *)

\* A login has a capture of its process behind it, which waits for it.
LoginInv ==
    \A p \in Processes : login[p].pc # "free" =>
        login[p].cam \in Cameras /\ Home[login[p].cam] = p /\ login[p].cam \in Asking

\* Unless logins have overlapped, at most one is under way,
OneLogin ==
    ~raced => \A p, q \in Processes : login[p].pc # "free" /\ login[q].pc # "free" => p = q

\* every copy of the session in use is as old as the file's,
FileIsCurrent ==
    ~raced => \A p \in Processes : copy[p].ok => copy[File].ok /\ copy[File].age = copy[p].age

\* the session a login is about to end is not young,
LoginSeesOld ==
    ~raced => \A p \in Processes : login[p].pc = "post" => copy[File].age # "young"

\* and the one it has brought is the only one, until it is stored.
LoginIsOnlyOne ==
    ~raced => \A p \in Processes : login[p].pc = "store" => \A x \in DOMAIN copy : ~copy[x].ok

IndInv ==
    /\ TypeOK /\ LoginInv
    /\ OneLogin /\ FileIsCurrent /\ LoginSeesOld /\ LoginIsOnlyOne

-----------------------------------------------------------------------------
\* What ends keeps everything but the portal's acceptance.
LEMMA EndedTypes ==
    /\ \A s \in Copy : Ended(s) \in Copy /\ ~Ended(s).ok /\ Ended(s).age = s.age
    /\ \A l \in Login : Ended(l) \in Login /\ Ended(l).pc = l.pc /\ Ended(l).cam = l.cam
    /\ \A k \in Capture : Ended(k) \in Capture /\ Ended(k).pc = k.pc
<1>1. \A s \in Copy : Ended(s) \in Copy /\ ~Ended(s).ok /\ Ended(s).age = s.age
    BY DEF Ended, Copy, Session
<1>2. \A l \in Login : Ended(l) \in Login /\ Ended(l).pc = l.pc /\ Ended(l).cam = l.cam
    BY DEF Ended, Login
<1>3. \A k \in Capture : Ended(k) \in Capture /\ Ended(k).pc = k.pc
    BY DEF Ended, Capture
<1> QED BY <1>1, <1>2, <1>3

LEMMA OlderTypes ==
    \A s \in Session : Older(s) \in Session /\ Older(s).ok = s.ok /\ Older(s).age # "young"
BY DEF Older, Session

\* What a capture goes on with when it gets its session; the others are as before.
LEMMA AfterTypes ==
    ASSUME TypeOK, NEW c \in Asking, NEW s, s.ok \in BOOLEAN, After(c, s)
    PROVE  /\ cam' \in [Cameras -> Capture]
           /\ \A d \in Cameras \ {c} : cam'[d] = cam[d]
<1>1. cam[c] \in Capture /\ cam[c].pc \in {"open", "force", "cookie", "restart"} /\ c \in Cameras
    BY DEF TypeOK, Asking
<1>2. PICK k : k = CASE cam[c].pc = "open" -> [pc |-> "probe", ok |-> s.ok, restarts |-> 0]
                     [] cam[c].pc = "force" -> [cam[c] EXCEPT !.pc = "cookie"]
                     [] OTHER -> [cam[c] EXCEPT !.pc = "on", !.ok = s.ok]
    OBVIOUS
<1>3. k \in Capture
    <2>1. CASE cam[c].pc = "open"
        BY <1>2, <2>1, PortalAssumption DEF Capture
    <2>2. CASE cam[c].pc = "force"
        BY <1>1, <1>2, <2>2 DEF Capture
    <2>3. CASE cam[c].pc \notin {"open", "force"}
        BY <1>1, <1>2, <2>3 DEF Capture
    <2> QED BY <2>1, <2>2, <2>3
<1>4. cam' = [cam EXCEPT ![c] = k]
    BY <1>2 DEF After
<1> QED BY <1>1, <1>3, <1>4 DEF TypeOK

\* A step that leaves sessions and logins alone and moves one capture that no
\* login answers for.
LEMMA CaptureStep ==
    ASSUME IndInv, NEW c \in Cameras,
           login[Home[c]].pc = "free" \/ c \notin Asking,
           cam' \in [Cameras -> Capture], \A d \in Cameras \ {c} : cam'[d] = cam[d],
           troubles' \in 0..MaxTroubles, UNCHANGED <<copy, login, raced>>
    PROVE  IndInv'
<1>1. TypeOK'
    BY DEF IndInv, TypeOK
<1>2. LoginInv'
    <2> SUFFICES ASSUME NEW p \in Processes, login[p].pc # "free"
                 PROVE  /\ login[p].cam \in Cameras /\ Home[login[p].cam] = p
                        /\ cam'[login[p].cam].pc \in {"open", "force", "cookie", "restart"}
        BY DEF LoginInv, Asking
    <2>1. login[p].cam \in Cameras /\ Home[login[p].cam] = p /\ login[p].cam \in Asking
        BY DEF IndInv, LoginInv
    <2>2. login[p].cam # c
        BY <2>1
    <2> QED BY <2>1, <2>2 DEF Asking
<1>3. OneLogin' /\ FileIsCurrent' /\ LoginSeesOld' /\ LoginIsOnlyOne'
    BY DEF IndInv, OneLogin, FileIsCurrent, LoginSeesOld, LoginIsOnlyOne
<1> QED BY <1>1, <1>2, <1>3 DEF IndInv

\* At first only the file may hold a session.
LEMMA Found ==
    ASSUME Init
    PROVE  /\ copy \in [Processes \cup {File} -> Copy]
           /\ \A p \in Processes : ~copy[p].ok
<1>1. PICK found \in {NoSession, [ok |-> TRUE, age |-> "fresh"], [ok |-> FALSE, age |-> "fresh"]} :
        copy = [p \in Processes \cup {File} |-> IF p = File THEN found ELSE NoSession]
    BY DEF Init
<1>2. NoSession \in Copy /\ ~NoSession.ok
    BY DEF Copy, NoSession
<1>3. found \in Copy
    <2>1. [ok |-> TRUE, age |-> "fresh"] \in Session /\ [ok |-> FALSE, age |-> "fresh"] \in Session
        BY DEF Session
    <2> QED BY <1>1, <1>2, <2>1 DEF Copy
<1>4. \A p \in Processes : p # File
    BY PortalAssumption
<1> QED BY <1>1, <1>2, <1>3, <1>4

LEMMA InitInv == Init => IndInv
<1> SUFFICES ASSUME Init PROVE IndInv
    OBVIOUS
<1>1. TypeOK
    <2>1. login \in [Processes -> Login] /\ cam \in [Cameras -> Capture]
        BY PortalAssumption DEF Init, Login, Free, Capture
    <2>2. copy \in [Processes \cup {File} -> Copy]
        BY Found
    <2>3. troubles \in 0..MaxTroubles /\ raced \in BOOLEAN
        <3>1. troubles \in 0..MaxTroubles
            BY PortalAssumption DEF Init
        <3>2. raced \in BOOLEAN
            BY DEF Init
        <3> QED BY <3>1, <3>2
    <2> QED BY <2>1, <2>2, <2>3 DEF TypeOK
<1>2. \A p \in Processes : login[p].pc = "free"
    BY DEF Init, Free
<1>3. \A p \in Processes : ~copy[p].ok
    BY Found
<1> QED BY <1>1, <1>2, <1>3 DEF IndInv, LoginInv, OneLogin, FileIsCurrent, LoginSeesOld,
           LoginIsOnlyOne

\* The steps of Corp8Session.session, one lemma for each.
LEMMA ReuseInv == ASSUME IndInv, NEW c \in Cameras, Reuse(c) PROVE IndInv'
<1>1. /\ c \in Asking /\ login[Home[c]].pc = "free" /\ Home[c] \in Processes
      /\ After(c, copy[Home[c]]) /\ UNCHANGED <<copy, login, troubles, raced>>
    BY PortalAssumption DEF Reuse
<1>2. TypeOK /\ copy[Home[c]].ok \in BOOLEAN
    <2>1. TypeOK /\ copy[Home[c]] \in Copy
        BY <1>1 DEF IndInv, TypeOK
    <2>2. \A s \in Copy : s.ok \in BOOLEAN
        BY DEF Copy, Session
    <2> QED BY <2>1, <2>2
<1>3. cam' \in [Cameras -> Capture] /\ \A d \in Cameras \ {c} : cam'[d] = cam[d]
    BY <1>1, <1>2, AfterTypes
<1>4. troubles' \in 0..MaxTroubles
    BY <1>1, <1>2 DEF TypeOK
<1> QED BY <1>1, <1>3, <1>4, CaptureStep

LEMMA AdoptInv == ASSUME IndInv, NEW c \in Cameras, Adopt(c) PROVE IndInv'
<1>1. PICK p : p = Home[c]
    OBVIOUS
<1>2. PICK seen \in Seen(p) :
        /\ c \in Asking /\ login[p].pc = "free" /\ Adopts(Forced(c), seen)
        /\ copy' = [copy EXCEPT ![p] = seen] /\ After(c, seen)
        /\ UNCHANGED <<login, troubles, raced>>
    BY <1>1 DEF Adopt
<1>3. TypeOK /\ p \in Processes /\ p # File
    BY <1>1, PortalAssumption DEF IndInv
<1>4. seen = copy[File] /\ seen \in Session
    <2>1. seen.age \in {"young", "fresh"}
        BY <1>2 DEF Adopts
    <2>2. seen # NoSession
        BY <2>1 DEF NoSession
    <2>3. seen = copy[File]
        BY <1>2, <2>2 DEF Seen
    <2>4. \A t \in Copy : t.age \in {"young", "fresh"} => t \in Session
        BY DEF Copy
    <2> QED BY <1>3, <2>1, <2>3, <2>4 DEF TypeOK
<1>5. /\ copy' \in [Processes \cup {File} -> Copy]
      /\ copy'[p] = copy[File] /\ copy'[File] = copy[File]
      /\ \A q \in Processes \ {p} : copy'[q] = copy[q]
    BY <1>2, <1>3, <1>4 DEF TypeOK
<1>6. cam' \in [Cameras -> Capture] /\ \A d \in Cameras \ {c} : cam'[d] = cam[d]
    <2>1. seen.ok \in BOOLEAN
        BY <1>4 DEF Session
    <2> QED BY <1>2, <1>3, <2>1, AfterTypes
<1>7. TypeOK'
    BY <1>2, <1>3, <1>5, <1>6 DEF TypeOK
<1>8. LoginInv'
    <2> SUFFICES ASSUME NEW q \in Processes, login[q].pc # "free"
                 PROVE  /\ login[q].cam \in Cameras /\ Home[login[q].cam] = q
                        /\ cam'[login[q].cam].pc \in {"open", "force", "cookie", "restart"}
        BY <1>2 DEF LoginInv, Asking
    <2>1. login[q].cam \in Cameras /\ Home[login[q].cam] = q /\ login[q].cam \in Asking
        BY DEF IndInv, LoginInv
    <2>2. login[q].cam # c
        BY <1>1, <1>2, <2>1
    <2> QED BY <1>6, <2>1, <2>2 DEF Asking
<1>9. OneLogin' /\ LoginSeesOld'
    BY <1>2, <1>5 DEF IndInv, OneLogin, LoginSeesOld
<1>10. FileIsCurrent'
    BY <1>2, <1>5 DEF IndInv, FileIsCurrent
<1>11. LoginIsOnlyOne'
    <2>1. DOMAIN copy = Processes \cup {File} /\ DOMAIN copy' = Processes \cup {File}
        BY <1>3, <1>5 DEF TypeOK
    <2> QED BY <1>2, <1>5, <2>1 DEF IndInv, LoginIsOnlyOne
<1> QED BY <1>7, <1>8, <1>9, <1>10, <1>11 DEF IndInv

LEMMA BeginLoginInv == ASSUME IndInv, NEW c \in Cameras, BeginLogin(c) PROVE IndInv'
<1>1. PICK p : p = Home[c]
    OBVIOUS
<1>2. /\ c \in Asking /\ login[p].pc = "free"
      /\ login' = [login EXCEPT ![p] = [pc |-> "post", cam |-> c, ok |-> FALSE]]
      /\ raced' = (raced \/ \E q \in Processes : login[q].pc # "free")
      /\ UNCHANGED <<copy, cam, troubles>>
    BY <1>1 DEF BeginLogin
<1>3. TypeOK /\ p \in Processes
    BY <1>1, PortalAssumption DEF IndInv
<1>4. /\ login' \in [Processes -> Login]
      /\ login'[p].pc = "post" /\ login'[p].cam = c
      /\ \A q \in Processes \ {p} : login'[q] = login[q]
    BY <1>2, <1>3 DEF TypeOK, Login
<1>5. TypeOK'
    BY <1>2, <1>3, <1>4 DEF TypeOK
<1>6. LoginInv'
    BY <1>1, <1>2, <1>4 DEF IndInv, LoginInv, Asking
<1>7. ~raced' => ~raced /\ \A q \in Processes : login[q].pc = "free"
    BY <1>2
<1>8. OneLogin' /\ FileIsCurrent' /\ LoginIsOnlyOne'
    BY <1>2, <1>4, <1>7 DEF IndInv, OneLogin, FileIsCurrent, LoginIsOnlyOne
<1>9. LoginSeesOld'
    <2>1. ~raced' => copy[File].age # "young"
        <3> SUFFICES ASSUME ~raced' PROVE copy[File].age # "young"
            OBVIOUS
        <3>1. Seen(p) = {copy[File]}
            BY <1>7 DEF Seen
        <3>2. ~Adopts(Forced(c), copy[File])
            BY <1>1, <3>1 DEF BeginLogin
        <3> QED BY <3>2 DEF Adopts
    <2> QED BY <1>2, <2>1 DEF LoginSeesOld
<1> QED BY <1>5, <1>6, <1>8, <1>9 DEF IndInv

LEMMA PostAcceptedInv == ASSUME IndInv, NEW p \in Processes, PostAccepted(p) PROVE IndInv'
<1>1. TypeOK
    BY DEF IndInv
<1>2. /\ copy' \in [Processes \cup {File} -> Copy]
      /\ \A x \in Processes \cup {File} : ~copy'[x].ok /\ copy'[x].age = copy[x].age
    <2>1. copy' = [x \in Processes \cup {File} |-> Ended(copy[x])]
        BY <1>1 DEF PostAccepted, TypeOK
    <2>2. \A x \in Processes \cup {File} :
            /\ Ended(copy[x]) \in Copy /\ ~Ended(copy[x]).ok
            /\ Ended(copy[x]).age = copy[x].age
        BY <1>1, EndedTypes DEF TypeOK
    <2> QED BY <2>1, <2>2
<1>3. /\ cam' \in [Cameras -> Capture]
      /\ \A c \in Cameras : cam'[c].pc = cam[c].pc
    <2>1. cam' = [c \in Cameras |-> Ended(cam[c])]
        BY DEF PostAccepted
    <2>2. \A c \in Cameras : Ended(cam[c]) \in Capture /\ Ended(cam[c]).pc = cam[c].pc
        BY <1>1, EndedTypes DEF TypeOK
    <2> QED BY <2>1, <2>2
<1>4. /\ login' \in [Processes -> Login]
      /\ login[p].pc = "post" /\ login'[p].pc = "store"
      /\ \A q \in Processes : login'[q].cam = login[q].cam
      /\ \A q \in Processes \ {p} : login'[q].pc = login[q].pc
    <2>1. /\ [login[p] EXCEPT !.pc = "store", !.ok = TRUE] \in Login
          /\ [login[p] EXCEPT !.pc = "store", !.ok = TRUE].cam = login[p].cam
          /\ [login[p] EXCEPT !.pc = "store", !.ok = TRUE].pc = "store"
        BY <1>1 DEF TypeOK, Login
    <2>2. \A q \in Processes : /\ Ended(login[q]) \in Login /\ Ended(login[q]).pc = login[q].pc
                               /\ Ended(login[q]).cam = login[q].cam
        BY <1>1, EndedTypes DEF TypeOK
    <2>3. login' = [q \in Processes |-> IF q = p THEN [login[p] EXCEPT !.pc = "store", !.ok = TRUE]
                                        ELSE Ended(login[q])]
        BY DEF PostAccepted
    <2>4. login[p].pc = "post"
        BY DEF PostAccepted
    <2> QED BY <2>1, <2>2, <2>3, <2>4
<1>5. UNCHANGED <<troubles, raced>>
    BY DEF PostAccepted
<1>6. TypeOK'
    BY <1>1, <1>2, <1>3, <1>4, <1>5 DEF TypeOK
<1>7. \A q \in Processes : login'[q].pc # "free" <=> login[q].pc # "free"
    BY <1>4
<1>8. LoginInv'
    BY <1>3, <1>4, <1>7 DEF IndInv, LoginInv, Asking
<1>9. OneLogin'
    BY <1>5, <1>7 DEF IndInv, OneLogin
<1>10. LoginSeesOld'
    BY <1>2, <1>4, <1>5 DEF IndInv, LoginSeesOld
<1>11. DOMAIN copy' = Processes \cup {File}
    BY <1>2
<1>12. FileIsCurrent' /\ LoginIsOnlyOne'
    BY <1>2, <1>11 DEF FileIsCurrent, LoginIsOnlyOne
<1> QED BY <1>6, <1>8, <1>9, <1>10, <1>12 DEF IndInv

LEMMA PostRefusedInv == ASSUME IndInv, NEW p \in Processes, PostRefused(p) PROVE IndInv'
<1>1. PICK c : c = login[p].cam
    OBVIOUS
<1>2. /\ TypeOK /\ login[p].pc = "post" /\ c \in Cameras /\ Home[c] = p
    BY <1>1 DEF IndInv, LoginInv, PostRefused
<1>3. PICK to \in {"cookie", "open"} : cam' = [cam EXCEPT ![c].pc = to]
    BY <1>1, <1>2 DEF PostRefused
<1>4. cam' \in [Cameras -> Capture] /\ \A d \in Cameras \ {c} : cam'[d] = cam[d]
    <2>1. [cam[c] EXCEPT !.pc = to] \in Capture
        BY <1>2 DEF TypeOK, Capture
    <2> QED BY <1>2, <1>3, <2>1 DEF TypeOK
<1>5. /\ login' \in [Processes -> Login] /\ login'[p].pc = "free"
      /\ \A q \in Processes \ {p} : login'[q] = login[q]
    BY <1>2 DEF PostRefused, TypeOK, Login, Free
<1>6. troubles' \in 0..MaxTroubles /\ UNCHANGED <<copy, raced>>
    BY <1>2, PortalAssumption DEF PostRefused, Trouble, TypeOK
<1>7. TypeOK'
    BY <1>2, <1>4, <1>5, <1>6 DEF TypeOK
<1>8. LoginInv'
    BY <1>2, <1>4, <1>5 DEF IndInv, LoginInv, Asking
<1>9. OneLogin' /\ FileIsCurrent' /\ LoginSeesOld' /\ LoginIsOnlyOne'
    BY <1>5, <1>6 DEF IndInv, OneLogin, FileIsCurrent, LoginSeesOld, LoginIsOnlyOne
<1> QED BY <1>7, <1>8, <1>9 DEF IndInv

LEMMA StoreInv == ASSUME IndInv, NEW p \in Processes, Store(p) PROVE IndInv'
<1>1. PICK s, c : s = [ok |-> login[p].ok, age |-> "young"] /\ c = login[p].cam
    OBVIOUS
<1>2. /\ login[p].pc = "store" /\ copy' = [copy EXCEPT ![p] = s, ![File] = s]
      /\ After(c, s) /\ login' = [login EXCEPT ![p] = Free] /\ UNCHANGED <<troubles, raced>>
    BY <1>1 DEF Store
<1>3. TypeOK /\ c \in Asking /\ c \in Cameras /\ Home[c] = p /\ p # File
    BY <1>1, <1>2, PortalAssumption DEF IndInv, LoginInv
<1>4. s \in Session /\ s.ok \in BOOLEAN
    BY <1>1, <1>3 DEF TypeOK, Login, Session
<1>5. cam' \in [Cameras -> Capture] /\ \A d \in Cameras \ {c} : cam'[d] = cam[d]
    BY <1>2, <1>3, <1>4, AfterTypes
<1>6. /\ copy' \in [Processes \cup {File} -> Copy]
      /\ copy'[p] = s /\ copy'[File] = s
      /\ \A q \in Processes \ {p} : copy'[q] = copy[q]
    <2>1. s \in Copy
        BY <1>4 DEF Copy
    <2>2. copy \in [Processes \cup {File} -> Copy]
        BY <1>3 DEF TypeOK
    <2>3. copy' = [x \in Processes \cup {File} |-> IF x \in {p, File} THEN s ELSE copy[x]]
        BY <1>2, <2>2
    <2>4. \A q \in Processes : q # File
        BY PortalAssumption
    <2> QED BY <1>3, <2>1, <2>2, <2>3, <2>4
<1>7. /\ login' \in [Processes -> Login] /\ login'[p].pc = "free"
      /\ \A q \in Processes \ {p} : login'[q] = login[q]
    BY <1>2, <1>3 DEF TypeOK, Login, Free
<1>8. TypeOK'
    BY <1>2, <1>3, <1>5, <1>6, <1>7 DEF TypeOK
<1>9. LoginInv'
    BY <1>3, <1>5, <1>7 DEF IndInv, LoginInv, Asking
<1>10. ~raced => \A q \in Processes \ {p} : login[q].pc = "free"
    BY <1>2 DEF IndInv, OneLogin
<1>11. OneLogin' /\ LoginSeesOld' /\ LoginIsOnlyOne'
    BY <1>2, <1>7, <1>10 DEF OneLogin, LoginSeesOld, LoginIsOnlyOne
<1>12. FileIsCurrent'
    <2>1. ~raced => \A q \in Processes \ {p} : ~copy'[q].ok
        BY <1>2, <1>3, <1>6 DEF IndInv, LoginIsOnlyOne, TypeOK
    <2> QED BY <1>2, <1>6, <2>1 DEF FileIsCurrent
<1> QED BY <1>8, <1>9, <1>11, <1>12 DEF IndInv

\* Copies that grow older without overtaking the one in the file.
LEMMA AgeInv ==
    ASSUME IndInv, NEW P \in SUBSET (Processes \cup {File}), Age(P),
           \A x \in P : copy[x].age \in {"young", "fresh", "old"},
           ~raced => \A x \in Processes : copy[x].ok => (x \in P <=> File \in P),
           UNCHANGED <<login, cam, troubles, raced>>
    PROVE  IndInv'
<1>1. TypeOK
    BY DEF IndInv
<1>2. \A x \in P : copy[x] \in Session
    BY <1>1 DEF TypeOK, Copy
<1>3. /\ copy' \in [Processes \cup {File} -> Copy]
      /\ \A x \in P : /\ copy'[x] = Older(copy[x]) /\ copy'[x].ok = copy[x].ok
                      /\ copy'[x].age # "young"
      /\ \A x \in (Processes \cup {File}) \ P : copy'[x] = copy[x]
    <2>1. copy' = [x \in Processes \cup {File} |-> IF x \in P THEN Older(copy[x]) ELSE copy[x]]
        BY <1>1 DEF Age, TypeOK
    <2>2. \A x \in P : /\ Older(copy[x]) \in Copy /\ Older(copy[x]).ok = copy[x].ok
                       /\ Older(copy[x]).age # "young"
        BY <1>2, OlderTypes DEF Copy
    <2>3. \A x \in Processes \cup {File} : copy[x] \in Copy
        BY <1>1 DEF TypeOK
    <2> QED BY <2>1, <2>2, <2>3
<1>4. TypeOK'
    BY <1>1, <1>3 DEF TypeOK
<1>5. FileIsCurrent'
    <2> SUFFICES ASSUME ~raced, NEW p \in Processes, copy'[p].ok
                 PROVE  copy'[File].ok /\ copy'[File].age = copy'[p].age
        BY DEF FileIsCurrent
    <2>1. copy[p].ok
        BY <1>3
    <2>2. copy[File].ok /\ copy[File].age = copy[p].age
        BY <2>1 DEF IndInv, FileIsCurrent
    <2>3. Older(copy[p]).age = Older(copy[File]).age
        BY <1>1, <2>2 DEF Older, TypeOK, Copy, Session
    <2> QED BY <1>3, <2>1, <2>2, <2>3
<1>6. LoginSeesOld'
    BY <1>3 DEF IndInv, LoginSeesOld
<1>7. LoginIsOnlyOne'
    <2>1. \A x \in Processes \cup {File} : copy'[x].ok => copy[x].ok
        BY <1>3
    <2> QED BY <1>1, <1>3, <2>1 DEF IndInv, LoginIsOnlyOne, TypeOK
<1> QED BY <1>4, <1>5, <1>6, <1>7 DEF IndInv, LoginInv, OneLogin, Asking

LEMMA ExhaustedInv == ASSUME IndInv, Exhausted PROVE IndInv'
<1>1. TypeOK
    BY DEF IndInv
<1>2. /\ copy' \in [Processes \cup {File} -> Copy]
      /\ \A x \in Processes \cup {File} : ~copy'[x].ok /\ copy'[x].age = copy[x].age
    <2>1. copy' = [x \in Processes \cup {File} |-> Ended(copy[x])]
        BY <1>1 DEF Exhausted, TypeOK
    <2>2. \A x \in Processes \cup {File} :
            Ended(copy[x]) \in Copy /\ ~Ended(copy[x]).ok /\ Ended(copy[x]).age = copy[x].age
        BY <1>1, EndedTypes DEF TypeOK
    <2> QED BY <2>1, <2>2
<1>3. /\ cam' \in [Cameras -> Capture]
      /\ \A c \in Cameras : cam'[c].pc = cam[c].pc
    <2>1. cam' = [c \in Cameras |-> Ended(cam[c])]
        BY DEF Exhausted
    <2>2. \A c \in Cameras : Ended(cam[c]) \in Capture /\ Ended(cam[c]).pc = cam[c].pc
        BY <1>1, EndedTypes DEF TypeOK
    <2> QED BY <2>1, <2>2
<1>4. troubles' \in 0..MaxTroubles /\ UNCHANGED <<login, raced>>
    BY <1>1, PortalAssumption DEF Exhausted, Trouble, TypeOK
<1>5. TypeOK'
    BY <1>1, <1>2, <1>3, <1>4 DEF TypeOK
<1>6. LoginInv' /\ OneLogin' /\ LoginSeesOld'
    BY <1>2, <1>3, <1>4 DEF IndInv, LoginInv, OneLogin, LoginSeesOld, Asking
<1>7. FileIsCurrent' /\ LoginIsOnlyOne'
    BY <1>2 DEF FileIsCurrent, LoginIsOnlyOne
<1> QED BY <1>5, <1>6, <1>7 DEF IndInv

LEMMA CaptureInv ==
    ASSUME IndInv, NEW c \in Cameras,
           Probe(c) \/ Refused(c) \/ Exits(c) \/ Restart(c) \/ Reopen(c)
    PROVE  IndInv'
<1>1. TypeOK /\ cam[c] \in Capture /\ c \notin Asking
    BY DEF IndInv, TypeOK, Asking, Probe, Refused, Exits, Restart, Reopen
<1>2. PICK k \in Capture : cam' = [cam EXCEPT ![c] = k]
    <2>1. CASE Probe(c) \/ Refused(c) \/ Exits(c)
        <3>1. PICK to \in {"cookie", "force", "off"} : Goto(c, to)
            BY <2>1 DEF Probe, Refused, Exits
        <3>2. [cam[c] EXCEPT !.pc = to] \in Capture
            BY <1>1 DEF Capture
        <3>3. cam' = [cam EXCEPT ![c] = [cam[c] EXCEPT !.pc = to]]
            BY <3>1 DEF Goto
        <3> QED BY <3>2, <3>3
    <2>2. CASE Restart(c)
        <3>1. [cam[c] EXCEPT !.pc = "restart", !.restarts = @ + 1] \in Capture
            <4>1. cam[c].restarts + 1 \in 0..MaxRestarts
                BY <1>1, <2>2, PortalAssumption DEF Restart, Capture
            <4> QED BY <1>1, <4>1 DEF Capture
        <3>2. cam' = [cam EXCEPT ![c] = [cam[c] EXCEPT !.pc = "restart", !.restarts = @ + 1]]
            BY <1>1, <2>2 DEF Restart, TypeOK
        <3> QED BY <3>1, <3>2
    <2>3. CASE Reopen(c)
        <3>1. [pc |-> "open", ok |-> FALSE, restarts |-> 0] \in Capture
            BY PortalAssumption DEF Capture
        <3> QED BY <2>3, <3>1 DEF Reopen
    <2> QED BY <2>1, <2>2, <2>3
<1>3. cam' \in [Cameras -> Capture] /\ \A d \in Cameras \ {c} : cam'[d] = cam[d]
    BY <1>1, <1>2 DEF TypeOK
<1>4. troubles' \in 0..MaxTroubles
    BY <1>1, PortalAssumption DEF Probe, Refused, Exits, Restart, Reopen, Trouble, TypeOK
<1>5. UNCHANGED <<copy, login, raced>>
    BY DEF Probe, Refused, Exits, Restart, Reopen, Trouble
<1> QED BY <1>1, <1>3, <1>4, <1>5, CaptureStep

LEMMA AgeEndedInv == ASSUME IndInv, NEW x \in Processes \cup {File}, AgeEnded(x) PROVE IndInv'
<1>1. /\ ~copy[x].ok /\ copy[x].age \in {"young", "fresh"} /\ Age({x})
      /\ UNCHANGED <<login, cam, troubles, raced>>
    BY DEF AgeEnded
<1>2. ~raced => \A p \in Processes : copy[p].ok => p # x /\ File # x
    BY <1>1 DEF IndInv, FileIsCurrent
<1> QED BY <1>1, <1>2, AgeInv

LEMMA AgeCurrentInv == ASSUME IndInv, AgeCurrent PROVE IndInv'
<1>1. PICK P : P = {x \in Processes \cup {File} : copy[x].ok}
    OBVIOUS
<1>2. TypeOK
    BY DEF IndInv
<1>3. Age(P) /\ UNCHANGED <<login, cam, troubles, raced>>
    BY <1>1, <1>2 DEF AgeCurrent, TypeOK
<1>4. \A x \in P : copy[x].age \in {"young", "fresh", "old"}
    <2>1. \A s \in Copy : s.ok => s.age \in {"young", "fresh", "old"}
        BY DEF Copy, Session
    <2> QED BY <1>1, <1>2, <2>1 DEF TypeOK
<1>5. ~raced => \A p \in Processes : copy[p].ok => (p \in P <=> File \in P)
    BY <1>1 DEF IndInv, FileIsCurrent
<1> QED BY <1>1, <1>3, <1>4, <1>5, AgeInv

LEMMA NextInv == IndInv /\ [Next]_vars => IndInv'
<1> SUFFICES ASSUME IndInv, [Next]_vars PROVE IndInv'
    OBVIOUS
<1>1. CASE \E c \in Cameras : Reuse(c) \/ Adopt(c) \/ BeginLogin(c)
    BY <1>1, ReuseInv, AdoptInv, BeginLoginInv
<1>2. CASE \E c \in Cameras : Probe(c) \/ Refused(c) \/ Exits(c) \/ Restart(c) \/ Reopen(c)
    BY <1>2, CaptureInv
<1>3. CASE \E p \in Processes : PostAccepted(p) \/ PostRefused(p) \/ Store(p)
    BY <1>3, PostAcceptedInv, PostRefusedInv, StoreInv
<1>4. CASE \E x \in Processes \cup {File} : AgeEnded(x)
    BY <1>4, AgeEndedInv
<1>5. CASE Exhausted
    BY <1>5, ExhaustedInv
<1>6. CASE AgeCurrent
    BY <1>6, AgeCurrentInv
<1>7. CASE UNCHANGED vars
    BY <1>7 DEF vars, IndInv, TypeOK, LoginInv, Asking, OneLogin, FileIsCurrent, LoginSeesOld,
       LoginIsOnlyOne
<1> QED BY <1>1, <1>2, <1>3, <1>4, <1>5, <1>6, <1>7 DEF Next

\* The invariant holds throughout.
THEOREM Invariance == Spec => []IndInv
<1> QED BY InitInv, NextInv, PTL DEF Spec

\* Every copy, login and capture is of its type, whoever moves it.
THEOREM PortalTypeCorrect == Spec => []TypeOK
<1>1. IndInv => TypeOK
    BY DEF IndInv
<1> QED BY <1>1, Invariance, PTL

\* A login ends no session of another process that is less than 15 seconds old,
\* as long as no two processes have logged in together.
THEOREM LoginsDoNotThrash == Spec => NoThrashing
<1> DEFINE Kept == \A p \in Processes, x \in DOMAIN copy :
            ~raced /\ login[p].pc = "post" /\ login'[p].pc = "store" /\ copy[x].ok
                => copy[x].age # "young"
<1>1. IndInv => Kept
    <2> SUFFICES ASSUME IndInv, ~raced, NEW p \in Processes, login[p].pc = "post",
                        NEW x \in Processes \cup {File}, copy[x].ok
                 PROVE  copy[x].age # "young"
        BY DEF IndInv, TypeOK
    <2>1. copy[File].age # "young"
        BY DEF IndInv, LoginSeesOld
    <2> QED BY <2>1 DEF IndInv, FileIsCurrent
<1>2. IndInv /\ [Next]_vars => [Kept]_vars
    BY <1>1
<1> QED BY <1>2, Invariance, PTL DEF Spec, NoThrashing

-----------------------------------------------------------------------------
(* The reader: the inductive invariant *)

\* Of the types, those of what is read; ReaderTypeCorrect adds the clocks.
ReaderTypes ==
    /\ kind \in {"rtsp", "corp8", "stream", "clips"}
    /\ cap \in {"none", "live", "dead", "clip"}
    /\ clip \in ClipIds /\ pos \in 0..ClipLength
    /\ failover \in BOOLEAN /\ connected \in BOOLEAN
    /\ failures \in 0..FailLimit

\* Nothing is open before the first attempt: what it leaves as it was, when a
\* strict camera does not open, is nothing.
StartsClosed == pc = "start" => cap = "none"

ReaderInv == ReaderTypes /\ StartsClosed /\ MarkTellsSource

-----------------------------------------------------------------------------

LEMMA NextClipIsClip ==
    ASSUME clip \in ClipIds
    PROVE  NextClip \in ClipIds
BY CameraReaderAssumption DEF CameraReaderAssumption, NextClip, ClipIds

LEMMA MoreFailures ==
    ASSUME failures \in 0..FailLimit
    PROVE  UpTo(FailLimit, failures + 1) \in 0..FailLimit
BY CameraReaderAssumption DEF CameraReaderAssumption, UpTo

\* What opening a clip leaves.
LEMMA Opening ==
    ASSUME NEW i \in ClipIds, OpenClip(i)
    PROVE  clip' = i /\ pos' = 0 /\ cap' \in {"clip", "none"} /\ connected' \in BOOLEAN
BY DEF OpenClip

LEMMA ReaderInvInit == ASSUME ReaderInit PROVE ReaderInv
<1>1. 0 \in ClipIds /\ 0 \in 0..ClipLength /\ 0 \in 0..FailLimit
    BY CameraReaderAssumption DEF CameraReaderAssumption, ClipIds
<1> QED BY <1>1 DEF ReaderInit, ReaderInv, ReaderTypes, StartsClosed, MarkTellsSource

LEMMA ReaderInvNext ==
    ASSUME ReaderInv, [ReaderNext]_readerVars
    PROVE  ReaderInv'
<1> USE DEF ReaderInv, ReaderTypes, StartsClosed, MarkTellsSource, Networked, config
<1>0. 0 \in 0..ClipLength /\ 0 \in 0..FailLimit /\ FailLimit \in 0..FailLimit
    BY CameraReaderAssumption DEF CameraReaderAssumption
<1>1. CASE StartOpened
    BY <1>0, <1>1, Opening DEF StartOpened, OpenedNetwork
<1>2. CASE StartFailed
    BY <1>0, <1>2, Opening, MoreFailures DEF StartFailed, EnterFailover
<1>3. CASE Reconnected
    BY <1>0, <1>3 DEF Reconnected, OpenedNetwork, Looping
<1>4. CASE ReconnectFailed
    BY <1>4, MoreFailures DEF ReconnectFailed, Looping
<1>5. CASE SkipClip
    BY <1>0, <1>5, Opening, NextClipIsClip DEF SkipClip, Looping
<1>6. CASE End
    BY <1>0, <1>6 DEF End
<1>7. CASE LiveFrame
    BY <1>0, <1>7 DEF LiveFrame, ReadsLive, Looping
<1>8. CASE LiveMiss
    BY <1>8, CameraReaderAssumption DEF CameraReaderAssumption, LiveMiss, ReadsLive, Looping
<1>9. CASE LiveLost
    BY <1>0, <1>9, Opening DEF LiveLost, ReadsLive, Looping, EnterFailover
<1>10. CASE RecoveryFails
    BY <1>10 DEF RecoveryFails, ReadsClip, Looping
<1>11. CASE HotSwap
    BY <1>0, <1>11 DEF HotSwap, OpenedNetwork, ReadsClip, Looping
<1>12. CASE ClipFrame
    <2>1. CASE pos < ClipLength
        <3>1. pos' \in 0..ClipLength
            BY <1>12, <2>1, CameraReaderAssumption DEF CameraReaderAssumption, ClipFrame
        <3> QED BY <1>12, <2>1, <3>1 DEF ClipFrame, ReadsClip, Looping
    <2>2. CASE ~(pos < ClipLength)
        <3>1. OpenClip(NextClip) /\ UNCHANGED <<config, pc, failover, failures>>
            BY <1>12, <2>2 DEF ClipFrame
        <3> QED BY <1>0, <1>12, <3>1, Opening, NextClipIsClip DEF ClipFrame, ReadsClip, Looping
    <2> QED BY <2>1, <2>2
<1>13. CASE Network \/ Tick \/ Stop \/ ReaderEnded \/ UNCHANGED readerVars
    BY <1>13 DEF Network, Tick, Stop, ReaderEnded, readerVars
<1>14. CASE ChildExits
    BY <1>14 DEF ChildExits
<1> QED BY <1>1, <1>2, <1>3, <1>4, <1>5, <1>6, <1>7, <1>8, <1>9, <1>10, <1>11, <1>12,
           <1>13, <1>14 DEF ReaderNext, Step

\* The invariant holds throughout.
THEOREM ReaderInvariance == ReaderSpec => []ReaderInv
<1>1. ReaderInit => ReaderInv
    BY ReaderInvInit
<1>2. ReaderInv /\ [ReaderNext]_readerVars => ReaderInv'
    BY ReaderInvNext
<1> QED BY <1>1, <1>2, PTL DEF ReaderSpec

-----------------------------------------------------------------------------
(* The reader: the theorems *)

\* The failover mark, which decides how a frame is stamped, tells what is open.
THEOREM MarkIsTrue == ReaderSpec => []MarkTellsSource
<1>1. ReaderInv => MarkTellsSource
    BY DEF ReaderInv
<1> QED BY <1>1, ReaderInvariance, PTL

\* A clip is never rewound, nor the rest of it skipped.
THEOREM ClipsAreReadInSequence == ReaderSpec => ClipsInSequence
<1> DEFINE InSequence ==
        cap = "clip" /\ cap' = "clip" =>
            \/ clip' = clip /\ pos' \in {pos, pos + 1}
            \/ pos = ClipLength /\ clip' = NextClip /\ pos' = 0
<1>1. ReaderInv /\ [ReaderNext]_readerVars => [InSequence]_readerVars
    <2> SUFFICES ASSUME ReaderInv, ReaderNext, cap = "clip", cap' = "clip"
                 PROVE  \/ clip' = clip /\ pos' \in {pos, pos + 1}
                        \/ pos = ClipLength /\ clip' = NextClip /\ pos' = 0
        OBVIOUS
    <2>1. CASE Step
        <3>1. CASE ClipFrame
            <4>1. CASE pos < ClipLength
                BY <3>1, <4>1 DEF ClipFrame
            <4>2. CASE ~(pos < ClipLength)
                <5>1. pos = ClipLength
                    BY <4>2, CameraReaderAssumption DEF CameraReaderAssumption, ReaderInv, ReaderTypes
                <5> QED BY <3>1, <4>2, <5>1 DEF ClipFrame, OpenClip
            <4> QED BY <4>1, <4>2
        <3>2. CASE RecoveryFails \/ ReconnectFailed
            BY <3>2 DEF RecoveryFails, ReconnectFailed
        <3>3. CASE ~(ClipFrame \/ RecoveryFails \/ ReconnectFailed)
            BY <2>1, <3>3 DEF Step, StartOpened, StartFailed, Reconnected, SkipClip, Closed,
               LiveFrame, LiveMiss, LiveLost, ReadsLive, HotSwap, OpenedNetwork, End,
               ReaderInv, StartsClosed
        <3> QED BY <3>1, <3>2, <3>3
    <2>2. CASE Network \/ Tick \/ Stop \/ ReaderEnded \/ ChildExits
        BY <2>2 DEF Network, Tick, Stop, ReaderEnded, ChildExits, readerVars
    <2> QED BY <2>1, <2>2 DEF ReaderNext
<1> QED BY <1>1, ReaderInvariance, PTL DEF ReaderSpec, ClipsInSequence

\* Every variable keeps its type, the clocks with their bounds included. The
\* hypothesis on the power is arithmetic, which the provers do not know.
THEOREM ReaderTypeCorrect ==
    ASSUME 2 ^ MaxDoubling \in Nat
    PROVE  ReaderSpec => []ReaderTypeOK
<1> DEFINE Longest == Interval(MaxDoubling) + 1
<1>0. Longest \in Nat
    <2>1. Interval(MaxDoubling) = 2 ^ MaxDoubling
        BY CameraReaderAssumption DEF Interval, CameraReaderAssumption
    <2> QED BY <2>1
<1> HIDE DEF Longest
<1> DEFINE Rest ==
        /\ strict \in BOOLEAN /\ readable \subseteq ClipIds
        /\ net \in {"down", "broken", "up"}
        /\ pc \in {"start", "loop", "ended"} /\ running \in BOOLEAN
        /\ recoveries \in 0..MaxDoubling
<1> DEFINE Clocks == since \in 0..Longest /\ delay \in 1..MaxDelay /\ wait \in 0..MaxDelay
<1>1. ReaderInit => Rest /\ Clocks
    BY <1>0, CameraReaderAssumption DEF ReaderInit, CameraReaderAssumption
<1>2. Rest /\ [ReaderNext]_readerVars => Rest'
    <2> SUFFICES ASSUME Rest, [ReaderNext]_readerVars PROVE Rest'
        OBVIOUS
    <2>1. UpTo(MaxDoubling, recoveries + 1) \in 0..MaxDoubling /\ 0 \in 0..MaxDoubling
        BY CameraReaderAssumption DEF UpTo, CameraReaderAssumption
    <2>2. CASE RecoveryFails \/ HotSwap
        BY <2>1, <2>2 DEF RecoveryFails, HotSwap, config
    <2>3. CASE Step /\ ~(RecoveryFails \/ HotSwap)
        BY <2>3 DEF Step, StartOpened, StartFailed, Reconnected, ReconnectFailed,
           SkipClip, LiveFrame, LiveMiss, LiveLost, ClipFrame, End, Looping,
           ReadsLive, ReadsClip, config, counters
    <2>4. CASE Network \/ ChildExits \/ Tick \/ Stop
        BY <2>4 DEF Network, ChildExits, Tick, Stop, config, counters
    <2>5. CASE ReaderEnded \/ UNCHANGED readerVars
        BY <2>5 DEF ReaderEnded, readerVars, config, counters
    <2> QED BY <2>2, <2>3, <2>4, <2>5 DEF ReaderNext
<1>3. Clocks /\ [ReaderNext]_readerVars => Clocks'
    <2> SUFFICES ASSUME Clocks, [ReaderNext]_readerVars PROVE Clocks'
        OBVIOUS
    <2>1. Longer \in 1..MaxDelay /\ 1 \in 1..MaxDelay /\ 1 \in 0..MaxDelay /\ 0 \in 0..Longest
        BY <1>0, CameraReaderAssumption DEF Longer, UpTo, CameraReaderAssumption
    <2>2. 1..MaxDelay \subseteq 0..MaxDelay
        BY CameraReaderAssumption DEF CameraReaderAssumption
    <2>3. CASE Reconnected \/ ReconnectFailed
        BY <2>1, <2>2, <2>3 DEF Reconnected, ReconnectFailed, counters
    <2>4. CASE RecoveryFails \/ HotSwap \/ ClipFrame
        BY <2>1, <2>4 DEF RecoveryFails, HotSwap, ClipFrame, backoff
    <2>5. CASE StartOpened \/ StartFailed \/ SkipClip \/ LiveFrame \/ LiveMiss
               \/ LiveLost \/ End
        BY <2>5 DEF StartOpened, StartFailed, SkipClip, LiveFrame, LiveMiss,
           LiveLost, End, counters, backoff
    <2>6. CASE Tick
        <3>1. since' \in 0..Longest
            BY <1>0, <2>6 DEF Tick, UpTo, Longest
        <3>2. wait' \in 0..MaxDelay /\ delay' = delay
            BY <2>6, CameraReaderAssumption DEF Tick, CameraReaderAssumption
        <3> QED BY <3>1, <3>2
    <2>7. CASE Network \/ ChildExits \/ Stop
        BY <2>7 DEF Network, ChildExits, Stop, counters, backoff
    <2>8. CASE ReaderEnded \/ UNCHANGED readerVars
        BY <2>8 DEF ReaderEnded, readerVars, counters, backoff
    <2> QED BY <2>3, <2>4, <2>5, <2>6, <2>7, <2>8 DEF ReaderNext, Step
<1>4. ReaderInv /\ Rest /\ Clocks => ReaderTypeOK
    BY DEF ReaderInv, ReaderTypes, ReaderTypeOK, Longest
<1> QED BY <1>1, <1>2, <1>3, <1>4, ReaderInvariance, PTL DEF ReaderSpec
=============================================================================
