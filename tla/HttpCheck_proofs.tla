---------------------------- MODULE HttpCheck_proofs ----------------------------
(***************************************************************************)
(* What the run of HttpCheck checks on two targets and two users, proved   *)
(* for any targets, pages, users and kinds of login, and whatever pages    *)
(* send the browser to.                                                    *)
(***************************************************************************)
EXTENDS HttpCheck, SequenceTheorems, TLAPS

AfterCurl == {"type", "login", "relogin", "web", "look", "second"}

(* The steps of URLCheck.probe                                             *)
Probing == AfterCurl \cup {"curl"}

(* The current target has an address, and its verdict is still open.       *)
TargetOpen == pc \in Probing => url \in Url /\ ~wellformed

(* What was tested at the current address, as far as the probe has come.   *)
Tested ==
  pc \in Probing =>
    /\ curl_success => passes >= 1
    /\ pc \in AfterCurl => curl_success /\ passes >= 2
    /\ pc \in {"web", "look", "second"} => login_success
    /\ login_success => curl_success /\ passes >= 2
    /\ login_success /\ login_needed => confirmed
    /\ pc \in {"curl", "type", "login", "relogin"} /\ login_success => login_needed
    /\ pc \in AfterCurl /\ login_success /\ login_needed => passes = 3

(* The address to export and the page that is probed                       *)
LoginUrlKnown ==
  /\ pc \in AfterCurl \/ wellformed => loginurl # NoUrl
  /\ (pc \in Probing \/ wellformed) /\ ~moved /\ loginurl # NoUrl => loginurl.page = url.page

TargetInv == TypeOK /\ TargetOpen /\ Tested /\ LoginUrlKnown /\ WellformedIsTested

-----------------------------------------------------------------------------
(* The lists of what was probed                                            *)
LEMMA AppendChecked ==
  ASSUME NEW check \in Checked, urlchecks \in Seq(Checked)
  PROVE  /\ Append(urlchecks, check) \in Seq(Checked)
         /\ Append(urlchecks, check) # <<>>
         /\ Len(Append(urlchecks, check)) = Len(urlchecks) + 1
         /\ DOMAIN Append(urlchecks, check) = 1..(Len(urlchecks) + 1)
         /\ Append(urlchecks, check)[Len(urlchecks) + 1] = check
         /\ \A i \in DOMAIN urlchecks : Append(urlchecks, check)[i] = urlchecks[i]
  BY AppendProperties

LEMMA ThisIsChecked ==
  ASSUME TypeOK
  PROVE  /\ ThisCheck \in Checked
         /\ \A s \in Int : [ThisCheck EXCEPT !.last = s] \in Checked
         /\ [ThisCheck EXCEPT !.last = 200, !.wellformed = TRUE] \in Checked
<1>1. ThisCheck \in Checked
  BY DEF TypeOK, ThisCheck, Checked
<1>2. \A s \in Int : [ThisCheck EXCEPT !.last = s] \in Checked
  BY <1>1 DEF Checked
<1>3. [ThisCheck EXCEPT !.last = 200, !.wellformed = TRUE] \in Checked
  <2>1. [ThisCheck EXCEPT !.last = 200] \in Checked
    BY <1>2
  <2>2. \A c \in Checked : [c EXCEPT !.wellformed = TRUE] \in Checked
    BY DEF Checked
  <2>3. [ThisCheck EXCEPT !.last = 200, !.wellformed = TRUE]
          = [[ThisCheck EXCEPT !.last = 200] EXCEPT !.wellformed = TRUE]
    OBVIOUS
  <2> QED BY <2>1, <2>2, <2>3
<1> QED BY <1>1, <1>2, <1>3

LEMMA RequestedType ==
  ASSUME url \in Url
  PROVE  Requested \in Url /\ Requested.page = url.page
  BY DEF Requested, Url

LEMMA PairType == 1 \in DOMAIN Pairs /\ \A i \in DOMAIN Pairs : Pairs[i] \in User
<1>1. Len(Pairs) \in Nat /\ Len(Pairs) # 0 /\ DOMAIN Pairs = 1..Len(Pairs)
  BY LoginAssumption, EmptySeq
<1> QED BY <1>1, LoginAssumption

LEMMA TryingType ==
  ASSUME TypeOK
  PROVE  Trying \in User
  BY PairType DEF TypeOK, Trying

-----------------------------------------------------------------------------
(* The types, in four parts.                                               *)
ProbeType == /\ pc \in {"next", "done", "hung"} \cup Probing
             /\ next \in 1..(Len(Targets) + 1)
             /\ urlchecks \in Seq(Checked)
             /\ answer \in {"none", "true", "false", "raised"}

LoginDataType == /\ login_type \in LoginType \cup {"none"}
                 /\ loginurl \in Url \cup {NoUrl}
                 /\ user \in User

FlagType == /\ curl_success \in BOOLEAN /\ login_success \in BOOLEAN /\ login_needed \in BOOLEAN
            /\ wellformed \in BOOLEAN /\ timedout \in BOOLEAN /\ is_ssl \in BOOLEAN
            /\ confirmed \in BOOLEAN /\ moved \in BOOLEAN

NumberType == /\ last_status_code \in Int
              /\ tries \in 0..3
              /\ pair \in DOMAIN Pairs
              /\ passes \in 0..3

LEMMA Types == TypeOK <=> ProbeType /\ LoginDataType /\ FlagType /\ NumberType /\ url \in Url \cup {NoUrl}
  BY DEF TypeOK, ProbeType, LoginDataType, FlagType, NumberType, Probing, AfterCurl, MAX_RETRIES

LEMMA EndTargetType ==
  ASSUME TypeOK, NEW check \in Checked, EndTarget(check)
  PROVE  ProbeType'
  BY AppendChecked DEF TypeOK, EndTarget, Goto, ProbeType

LEMMA FailureStatusType ==
  ASSUME TypeOK, NEW failure \in Failure
  PROVE  FailureStatus(failure) \in Int
<1>1. last_status_code \in Int
  BY DEF TypeOK
<1> QED BY <1>1 DEF FailureStatus

LEMMA CurlFailsBy ==
  ASSUME CurlFails
  PROVE  \E failure \in Failure :
           /\ url' = Requested
           /\ last_status_code' = FailureStatus(failure)
           /\ timedout' \in BOOLEAN /\ is_ssl' \in BOOLEAN
           /\ \/ tries' = tries + 1 /\ MayRetry /\ UNCHANGED <<pc, probe>>
              \/ UNCHANGED tries /\ EndTarget([ThisCheck EXCEPT !.last = FailureStatus(failure)])
  BY DEF CurlFails

LEMMA ProbeTypes ==
  ASSUME TypeOK, Next
  PROVE  ProbeType'
<1> USE DEF At, Goto, flags, login, curl, aux, probe
<1>1. ProbeType
  BY Types
<1>2. Len(Targets) \in Nat
  BY PageAssumption
<1>3. \A s \in Int : [ThisCheck EXCEPT !.last = s] \in Checked
  BY ThisIsChecked
<1>4. CASE NextTarget \/ NoMoreTargets \/ NeverAnswered \/ ProbeAgain \/ Done
  <2>1. CASE NextTarget
    BY <1>1, <1>2, <2>1 DEF NextTarget, ProbeType, Probing, AfterCurl
  <2>2. CASE NoMoreTargets
    BY <1>1, <2>2 DEF NoMoreTargets, ProbeType
  <2>3. CASE ProbeAgain
    <3>1. 1 \in 1..(Len(Targets) + 1) /\ <<>> \in Seq(Checked)
      BY <1>2, EmptySeq
    <3> QED BY <2>3, <3>1 DEF ProbeAgain, ProbeType
  <2>4. CASE Done \/ NeverAnswered
    BY <1>1, <2>4 DEF Done, NeverAnswered, vars, ProbeType
  <2> QED BY <1>4, <2>1, <2>2, <2>3, <2>4
<1>5. CASE CurlAnswers
  <2>1. last_status_code' \in Int
    BY <1>5 DEF CurlAnswers, Reply, TypeOK
  <2>2. \/ EndTarget([ThisCheck EXCEPT !.last = last_status_code'])
        \/ Recurl /\ UNCHANGED probe
        \/ Goto("type") /\ UNCHANGED probe
    BY <1>5 DEF CurlAnswers
  <2> QED BY <1>1, <1>3, <2>1, <2>2, EndTargetType DEF Recurl, ProbeType, Probing, AfterCurl
<1>6. CASE CurlFails
  <2>1. PICK failure \in Failure :
          \/ UNCHANGED <<pc, probe>>
          \/ EndTarget([ThisCheck EXCEPT !.last = FailureStatus(failure)])
    BY <1>6, CurlFailsBy
  <2>2. FailureStatus(failure) \in Int
    BY FailureStatusType
  <2> QED BY <1>1, <1>3, <2>1, <2>2, EndTargetType DEF ProbeType
<1>7. CASE LoginNext
  <2>1. CASE LoginRejected
    <3>1. \/ EndTarget(ThisCheck)
          \/ Goto("login") /\ UNCHANGED probe
      BY <2>1 DEF LoginRejected
    <3> QED BY <1>1, <3>1, ThisIsChecked, EndTargetType DEF ProbeType, Probing, AfterCurl
  <2>2. CASE NoLogin \/ LoginNeeded \/ LoginAccepted \/ LoginConfirmed
    BY <1>1, <2>2 DEF NoLogin, LoginNeeded, LoginAccepted, LoginConfirmed, LoginPassed, Recurl,
                      ProbeType, Probing, AfterCurl
  <2> QED BY <1>7, <2>1, <2>2 DEF LoginNext
<1>8. CASE WebNext
  <2>1. CASE Connected \/ BrowserRaises \/ LooksGood
    BY <1>1, <2>1 DEF Connected, BrowserRaises, LooksGood, ProbeType, Probing, AfterCurl
  <2>2. CASE NotConnected
    BY <1>3, <2>2, EndTargetType DEF NotConnected
  <2>3. CASE LooksGoodAgain
    <3>1. [ThisCheck EXCEPT !.last = 200, !.wellformed = TRUE] \in Checked
      BY ThisIsChecked
    <3> QED BY <2>3, <3>1, EndTargetType DEF LooksGoodAgain
  <2>4. CASE LooksBad
    <3>1. \/ \E s \in Look : EndTarget([ThisCheck EXCEPT !.last = s])
          \/ Recurl /\ UNCHANGED probe
      BY <2>4 DEF LooksBad
    <3>2. ASSUME NEW s \in Look, EndTarget([ThisCheck EXCEPT !.last = s]) PROVE ProbeType'
      <4>1. s \in Int BY DEF Look
      <4> QED BY <1>3, <3>2, <4>1, EndTargetType
    <3>3. Recurl /\ UNCHANGED probe => ProbeType'
      BY <1>1 DEF Recurl, ProbeType, Probing, AfterCurl
    <3> QED BY <3>1, <3>2, <3>3
  <2> QED BY <1>8, <2>1, <2>2, <2>3, <2>4 DEF WebNext
<1> QED BY <1>4, <1>5, <1>6, <1>7, <1>8 DEF Next, ProbeNext, CurlNext

LEMMA LoginDataTypes ==
  ASSUME TypeOK, TargetOpen, Next
  PROVE  LoginDataType'
<1> USE DEF At, flags, login, curl, aux, probe
<1>1. LoginDataType
  BY Types
<1>2. CASE NextTarget
  BY <1>2, LoginAssumption DEF NextTarget, FreshLogin, LoginDataType
<1>3. CASE NoMoreTargets \/ NeverAnswered \/ ProbeAgain \/ Done
  BY <1>1, <1>3 DEF NoMoreTargets, NeverAnswered, ProbeAgain, Done, LoginDataType, vars
<1>4. CASE CurlAnswers
  <2>1. Requested \in Url
    BY <1>4, RequestedType DEF CurlAnswers, TargetOpen, Probing
  <2>2. /\ loginurl' \in {loginurl, Requested}
        /\ UNCHANGED <<login_type, user>>
    BY <1>4 DEF CurlAnswers
  <2> QED BY <1>1, <2>1, <2>2 DEF LoginDataType
<1>5. CASE CurlFails
  BY <1>1, <1>5 DEF CurlFails, LoginDataType
<1>6. CASE LoginNeeded
  BY <1>1, <1>6 DEF LoginNeeded, LoginDataType
<1>7. CASE LoginConfirmed
  <2>1. url \in Url
    BY <1>7 DEF LoginConfirmed, TargetOpen, Probing, AfterCurl
  <2> QED BY <1>1, <1>7, <2>1, TryingType DEF LoginConfirmed, LoginDataType
<1>8. CASE NoLogin \/ LoginAccepted \/ LoginRejected
  BY <1>1, <1>8 DEF NoLogin, LoginAccepted, LoginRejected, LoginDataType
<1>9. CASE WebNext
  BY <1>1, <1>9 DEF WebNext, Connected, NotConnected, BrowserRaises, LooksGood, LooksGoodAgain, LooksBad,
                    LoginDataType
<1> QED BY <1>2, <1>3, <1>4, <1>5, <1>6, <1>7, <1>8, <1>9 DEF Next, ProbeNext, CurlNext, LoginNext

LEMMA FlagTypes ==
  ASSUME TypeOK, Next
  PROVE  FlagType'
<1> USE DEF At, flags, login, curl, aux, probe, FlagType
<1>1. FlagType
  BY Types
<1>2. CASE NextTarget \/ NoMoreTargets \/ NeverAnswered \/ ProbeAgain \/ Done
  BY <1>1, <1>2 DEF NextTarget, FreshStatus, NoMoreTargets, NeverAnswered, ProbeAgain, Done, vars
<1>3. CASE CurlAnswers
  BY <1>1, <1>3 DEF CurlAnswers, Recurl
<1>4. CASE CurlFails
  BY <1>1, <1>4 DEF CurlFails
<1>5. CASE NoLogin \/ LoginNeeded \/ LoginAccepted \/ LoginRejected
  BY <1>1, <1>5 DEF NoLogin, LoginPassed, Recurl, LoginNeeded, LoginAccepted, LoginRejected
<1>6. CASE LoginConfirmed
  BY <1>1, <1>6 DEF LoginConfirmed, LoginPassed, Recurl
<1>7. CASE Connected \/ NotConnected \/ BrowserRaises \/ LooksGood
  BY <1>1, <1>7 DEF Connected, NotConnected, BrowserRaises, LooksGood
<1>8. CASE LooksGoodAgain
  BY <1>1, <1>8 DEF LooksGoodAgain
<1>9. CASE LooksBad
  <2>1. \/ StartOver /\ Recurl /\ confirmed' = FALSE /\ moved' \in BOOLEAN
        \/ UNCHANGED <<curl_success, login_success, tries, is_ssl, aux>>
    BY <1>1, <1>9 DEF LooksBad
  <2>2. UNCHANGED <<login_needed, wellformed, timedout>>
    BY <1>9 DEF LooksBad
  <2> QED BY <1>1, <2>1, <2>2 DEF StartOver, Recurl
<1> QED BY <1>2, <1>3, <1>4, <1>5, <1>6, <1>7, <1>8, <1>9 DEF Next, ProbeNext, CurlNext, LoginNext, WebNext

LEMMA NumberTypes ==
  ASSUME TypeOK, Next
  PROVE  NumberType'
<1> USE DEF At, flags, login, curl, aux, probe, NumberType
<1>1. NumberType
  BY Types
<1>2. CASE NextTarget \/ NoMoreTargets \/ NeverAnswered \/ ProbeAgain \/ Done
  BY <1>1, <1>2 DEF NextTarget, FreshStatus, NoMoreTargets, NeverAnswered, ProbeAgain, Done, vars
<1>3. CASE CurlAnswers
  BY <1>1, <1>3 DEF CurlAnswers, Recurl, Reply
<1>4. CASE CurlFails
  <2>1. PICK failure \in Failure :
          /\ last_status_code' = FailureStatus(failure)
          /\ (tries' = tries \/ (tries' = tries + 1 /\ MayRetry))
    BY <1>4, CurlFailsBy
  <2>2. FailureStatus(failure) \in Int
    BY FailureStatusType
  <2>3. UNCHANGED <<pair, passes>>
    BY <1>4 DEF CurlFails
  <2> QED BY <1>1, <2>1, <2>2, <2>3 DEF MayRetry, MAX_RETRIES
<1>5. CASE NoLogin \/ LoginNeeded \/ LoginAccepted \/ LoginConfirmed
  <2>1. CASE NoLogin BY <1>1, <2>1 DEF NoLogin, LoginPassed, Recurl
  <2>2. CASE LoginNeeded BY <1>1, <2>2, PairType DEF LoginNeeded
  <2>3. CASE LoginAccepted BY <1>1, <2>3 DEF LoginAccepted
  <2>4. CASE LoginConfirmed BY <1>1, <2>4 DEF LoginConfirmed, LoginPassed, Recurl
  <2> QED BY <1>5, <2>1, <2>2, <2>3, <2>4
<1>6. CASE LoginRejected
  <2>1. DOMAIN Pairs = 1..Len(Pairs) /\ Len(Pairs) \in Nat
    BY LoginAssumption
  <2> QED BY <1>1, <1>6, <2>1 DEF LoginRejected
<1>7. CASE Connected \/ NotConnected \/ BrowserRaises \/ LooksGood \/ LooksGoodAgain
  BY <1>1, <1>7 DEF Connected, NotConnected, BrowserRaises, LooksGood, LooksGoodAgain
<1>8. CASE LooksBad
  BY <1>1, <1>8 DEF LooksBad, Look, Recurl
<1> QED BY <1>2, <1>3, <1>4, <1>5, <1>6, <1>7, <1>8 DEF Next, ProbeNext, CurlNext, LoginNext, WebNext

LEMMA UrlTypes ==
  ASSUME TypeOK, TargetOpen, Next
  PROVE  url' \in Url \cup {NoUrl} /\ (pc' \in Probing => url' \in Url)
<1> USE DEF At, Goto, flags, login, curl, aux, probe, Probing, AfterCurl
<1>1. url \in Url \cup {NoUrl}
  BY Types
<1>2. CASE NextTarget
  <2>1. next \in 1..Len(Targets) /\ Targets[next] \in Page
    BY <1>2, PageAssumption DEF NextTarget, TypeOK
  <2> QED BY <1>2, <2>1 DEF NextTarget, Url
<1>3. CASE NoMoreTargets \/ NeverAnswered \/ ProbeAgain \/ Done
  BY <1>1, <1>3 DEF NoMoreTargets, NeverAnswered, ProbeAgain, Done, vars, TargetOpen
<1>4. CASE CurlNext
  BY <1>4, RequestedType DEF CurlNext, CurlAnswers, CurlFails, TargetOpen
<1>5. CASE LoginNext
  BY <1>5 DEF LoginNext, NoLogin, LoginNeeded, LoginAccepted, LoginConfirmed, LoginRejected, TargetOpen
<1>6. CASE Connected \/ NotConnected \/ BrowserRaises \/ LooksGood \/ LooksGoodAgain
  BY <1>6 DEF Connected, NotConnected, BrowserRaises, LooksGood, LooksGoodAgain, TargetOpen
<1>7. CASE LooksBad
  <2>1. url \in Url
    BY <1>7 DEF LooksBad, TargetOpen
  <2>2. Shown(url) \subseteq Url
    BY <2>1, PageAssumption DEF Shown, Url
  <2> QED BY <1>7, <2>1, <2>2 DEF LooksBad
<1> QED BY <1>2, <1>3, <1>4, <1>5, <1>6, <1>7 DEF Next, ProbeNext, WebNext

LEMMA NextTypes ==
  ASSUME TypeOK, TargetOpen, Next
  PROVE  TypeOK'
<1>1. ProbeType' /\ LoginDataType' /\ FlagType' /\ NumberType' /\ (url \in Url \cup {NoUrl})'
  BY ProbeTypes, LoginDataTypes, FlagTypes, NumberTypes, UrlTypes
<1>2. (ProbeType /\ LoginDataType /\ FlagType /\ NumberType /\ url \in Url \cup {NoUrl} => TypeOK)'
  BY DEF TypeOK, ProbeType, LoginDataType, FlagType, NumberType, Probing, AfterCurl, MAX_RETRIES
<1> QED BY <1>1, <1>2
-----------------------------------------------------------------------------
(* The tests of the current target                                         *)
LEMMA EndTargetSteps ==
  ASSUME NEW check, EndTarget(check), check.wellformed = FALSE
  PROVE  pc' = "next"
  BY DEF EndTarget, Goto

LEMMA ThisIsOpen ==
  ASSUME TypeOK, ~wellformed
  PROVE  /\ ThisCheck.wellformed = FALSE
         /\ \A s \in Int : [ThisCheck EXCEPT !.last = s].wellformed = FALSE
  BY DEF TypeOK, ThisCheck

(* The targets before and after the current one                            *)
LEMMA RestTargetInv ==
  ASSUME TargetInv, NextTarget \/ NoMoreTargets \/ NeverAnswered \/ ProbeAgain \/ Done
  PROVE  TargetInv'
<1> USE DEF At, Goto, flags, login, curl, aux, probe
<1>1. TypeOK'
  BY NextTypes DEF TargetInv, Next, ProbeNext
<1>2. CASE NextTarget
  <2>1. url' \in Url
    BY <1>2, UrlTypes DEF TargetInv, Next, ProbeNext, NextTarget, Probing
  <2> QED BY <1>1, <1>2, <2>1 DEF TargetInv, NextTarget, FreshLogin, FreshStatus, TargetOpen, Tested,
                                  LoginUrlKnown, WellformedIsTested, Probing, AfterCurl
<1>3. CASE NoMoreTargets
  BY <1>1, <1>3 DEF TargetInv, NoMoreTargets, TargetOpen, Tested, LoginUrlKnown, WellformedIsTested,
                    Probing, AfterCurl
<1>4. CASE ProbeAgain
  BY <1>1, <1>4 DEF TargetInv, ProbeAgain, TargetOpen, Tested, LoginUrlKnown, WellformedIsTested,
                    Probing, AfterCurl
<1>5. CASE Done \/ NeverAnswered
  BY <1>1, <1>5 DEF TargetInv, Done, NeverAnswered, vars, TargetOpen, Tested, LoginUrlKnown, WellformedIsTested,
                    Probing, AfterCurl
<1> QED BY <1>2, <1>3, <1>4, <1>5

LEMMA CurlTargetInv ==
  ASSUME TargetInv, CurlNext
  PROVE  TargetInv'
<1> USE DEF At, Goto, flags, login, curl, aux, probe
<1>1. TypeOK'
  BY NextTypes DEF TargetInv, Next, ProbeNext
<1>2. pc = "curl" /\ url \in Url /\ ~wellformed /\ TypeOK
  BY DEF TargetInv, TargetOpen, Probing, CurlNext, CurlAnswers, CurlFails
<1>3. Requested \in Url /\ Requested.page = url.page /\ Requested # NoUrl
  BY <1>2, RequestedType, NoUrlAssumption
<1>4. passes \in 0..3
  BY <1>2 DEF TypeOK
<1>5. CASE CurlAnswers
  <2>1. /\ url' = Requested
        /\ UNCHANGED <<login_success, login_needed, wellformed, confirmed, moved>>
    BY <1>5 DEF CurlAnswers
  <2>2. \/ pc' = "next" /\ UNCHANGED <<curl_success, loginurl, passes>>
        \/ pc' = "curl" /\ ~curl_success /\ curl_success' = TRUE /\ passes' = 1 /\ UNCHANGED loginurl
        \/ /\ pc' = "type" /\ curl_success /\ UNCHANGED curl_success
           /\ passes' = IF passes < 3 THEN passes + 1 ELSE 3
           /\ loginurl' = IF loginurl = NoUrl THEN Requested ELSE loginurl
    <3>1. last_status_code' \in Int
      BY <1>1 DEF TypeOK
    <3> QED BY <1>2, <1>5, <3>1, ThisIsOpen, EndTargetSteps DEF CurlAnswers, Recurl
  <2>3. TargetOpen' /\ WellformedIsTested'
    BY <1>2, <1>3, <2>1 DEF TargetOpen, WellformedIsTested
  <2>4. Tested'
    BY <1>2, <1>4, <2>1, <2>2 DEF TargetInv, Tested, Probing, AfterCurl
  <2>5. LoginUrlKnown'
    BY <1>2, <1>3, <2>1, <2>2 DEF TargetInv, LoginUrlKnown, Probing, AfterCurl
  <2> QED BY <1>1, <2>3, <2>4, <2>5 DEF TargetInv
<1>6. CASE CurlFails
  <2>1. url' = Requested /\ UNCHANGED <<flags, login, wellformed, aux>>
    BY <1>6 DEF CurlFails
  <2>2. pc' \in {"curl", "next"}
    BY <1>2, <1>6, CurlFailsBy, FailureStatusType, ThisIsOpen, EndTargetSteps
  <2>3. TargetOpen' /\ WellformedIsTested'
    BY <1>2, <1>3, <2>1 DEF TargetOpen, WellformedIsTested
  <2>4. Tested'
    BY <1>2, <2>1, <2>2 DEF TargetInv, Tested, Probing, AfterCurl
  <2>5. LoginUrlKnown'
    BY <1>2, <1>3, <2>1, <2>2 DEF TargetInv, LoginUrlKnown, Probing, AfterCurl
  <2> QED BY <1>1, <2>3, <2>4, <2>5 DEF TargetInv
<1> QED BY <1>5, <1>6 DEF CurlNext

LEMMA LoginTargetInv ==
  ASSUME TargetInv, LoginNext
  PROVE  TargetInv'
<1> USE DEF At, Goto, flags, login, curl, aux, probe
<1>1. TypeOK'
  BY NextTypes DEF TargetInv, Next, ProbeNext
<1>2. pc \in {"type", "login", "relogin"} /\ url \in Url /\ ~wellformed /\ TypeOK
  BY DEF TargetInv, TargetOpen, Probing, AfterCurl, LoginNext, NoLogin, LoginNeeded, LoginAccepted,
         LoginConfirmed, LoginRejected
<1>3. UNCHANGED <<url, wellformed, curl_success, passes, moved>>
  BY DEF LoginNext, NoLogin, LoginNeeded, LoginAccepted, LoginConfirmed, LoginRejected
<1>4. TargetOpen' /\ WellformedIsTested'
  BY <1>2, <1>3 DEF TargetOpen, WellformedIsTested
<1>5. CASE NoLogin
  <2>1. Tested'
    BY <1>2, <1>3, <1>5 DEF TargetInv, Tested, Probing, AfterCurl, NoLogin, LoginPassed, Recurl
  <2>2. LoginUrlKnown'
    BY <1>2, <1>3, <1>5 DEF TargetInv, LoginUrlKnown, Probing, AfterCurl, NoLogin, LoginPassed, Recurl
  <2> QED BY <1>1, <1>4, <2>1, <2>2 DEF TargetInv
<1>6. CASE LoginConfirmed
  <2>1. Tested'
    BY <1>2, <1>3, <1>6 DEF TargetInv, Tested, Probing, AfterCurl, LoginConfirmed, LoginPassed, Recurl
  <2>2. LoginUrlKnown'
    BY <1>2, <1>3, <1>6, NoUrlAssumption DEF LoginUrlKnown, LoginConfirmed
  <2> QED BY <1>1, <1>4, <2>1, <2>2 DEF TargetInv
<1>7. CASE LoginNeeded \/ LoginAccepted \/ LoginRejected
  <2>1. /\ pc' \in {"login", "relogin", "next"}
        /\ UNCHANGED <<login_success, login_needed, confirmed, loginurl>>
    BY <1>2, <1>7, ThisIsOpen, EndTargetSteps DEF LoginNeeded, LoginAccepted, LoginRejected
  <2>2. Tested'
    BY <1>2, <1>3, <2>1 DEF TargetInv, Tested, Probing, AfterCurl
  <2>3. LoginUrlKnown'
    BY <1>2, <1>3, <2>1 DEF TargetInv, LoginUrlKnown, Probing, AfterCurl
  <2> QED BY <1>1, <1>4, <2>2, <2>3 DEF TargetInv
<1> QED BY <1>5, <1>6, <1>7 DEF LoginNext

LEMMA WebTargetInv ==
  ASSUME TargetInv, WebNext
  PROVE  TargetInv'
<1> USE DEF At, Goto, flags, login, curl, aux, probe
<1>1. TypeOK'
  BY NextTypes DEF TargetInv, Next, ProbeNext
<1>2. pc \in {"web", "look", "second"} /\ url \in Url /\ ~wellformed /\ TypeOK
  BY DEF TargetInv, TargetOpen, Probing, AfterCurl, WebNext, Connected, NotConnected, BrowserRaises,
         LooksGood, LooksGoodAgain, LooksBad
<1>3. ASSUME UNCHANGED <<url, flags, login, wellformed, aux>>, pc' \in {"look", "second", "next", "done"}
      PROVE  TargetInv'
  <2>1. Tested'
    BY <1>2, <1>3 DEF TargetInv, Tested, Probing, AfterCurl
  <2>2. LoginUrlKnown'
    BY <1>2, <1>3 DEF TargetInv, LoginUrlKnown, Probing, AfterCurl
  <2> QED BY <1>1, <1>2, <1>3, <2>1, <2>2 DEF TargetInv, TargetOpen, WellformedIsTested
<1>4. CASE Connected \/ NotConnected \/ BrowserRaises \/ LooksGood
  <2>1. CASE Connected \/ BrowserRaises \/ LooksGood
    BY <1>3, <2>1 DEF Connected, BrowserRaises, LooksGood
  <2>2. CASE NotConnected
    <3>1. EndTarget([ThisCheck EXCEPT !.last = -1]) /\ UNCHANGED <<url, flags, login, wellformed, aux>>
      BY <2>2 DEF NotConnected
    <3>2. [ThisCheck EXCEPT !.last = -1].wellformed = FALSE
      BY <1>2 DEF ThisCheck
    <3>3. pc' = "next"
      BY <3>1, <3>2 DEF EndTarget
    <3> QED BY <1>3, <3>1, <3>3
  <2> QED BY <1>4, <2>1, <2>2
<1>5. CASE LooksGoodAgain
  <2>1. /\ wellformed' = TRUE /\ last_status_code' = 200
        /\ UNCHANGED <<url, flags, login, aux>>
    BY <1>5 DEF LooksGoodAgain
  <2>2. pc' = "done"
    BY <1>5, ThisIsChecked, <1>2 DEF LooksGoodAgain, EndTarget, Checked
  <2>3. WellformedIsTested'
    BY <1>2, <2>1 DEF TargetInv, Tested, Probing, AfterCurl, WellformedIsTested
  <2>4. LoginUrlKnown'
    BY <1>2, <2>1 DEF TargetInv, LoginUrlKnown, Probing, AfterCurl
  <2> QED BY <1>1, <2>2, <2>3, <2>4 DEF TargetInv, TargetOpen, Tested, Probing, AfterCurl
<1>6. CASE LooksBad
  <2>1. PICK status \in Look \ {200}, shown \in Shown(url) :
          \/ /\ url' = shown /\ StartOver /\ passes' = 0 /\ confirmed' = FALSE
             /\ moved' = (moved \/ shown.page # url.page) /\ Recurl
          \/ /\ EndTarget([ThisCheck EXCEPT !.last = status])
             /\ UNCHANGED <<url, curl_success, login_success, aux>>
    BY <1>6 DEF LooksBad
  <2>2. UNCHANGED <<login_needed, login, wellformed>>
    BY <1>6 DEF LooksBad
  <2>3. CASE /\ url' = shown /\ StartOver /\ passes' = 0 /\ confirmed' = FALSE
             /\ moved' = (moved \/ shown.page # url.page) /\ Recurl
    <3>1. url' \in Url
      BY <1>6, <2>3, UrlTypes DEF TargetInv, Next, ProbeNext, WebNext, Recurl, Probing
    <3>2. Tested'
      BY <2>2, <2>3 DEF Tested, Probing, AfterCurl, StartOver, Recurl
    <3>3. LoginUrlKnown'
      BY <1>2, <2>2, <2>3 DEF TargetInv, LoginUrlKnown, Probing, AfterCurl, Recurl
    <3> QED BY <1>1, <1>2, <2>2, <3>1, <3>2, <3>3 DEF TargetInv, TargetOpen, WellformedIsTested
  <2>4. CASE /\ EndTarget([ThisCheck EXCEPT !.last = status])
             /\ UNCHANGED <<url, curl_success, login_success, aux>>
    <3>1. status \in Int
      BY DEF Look
    <3>2. pc' = "next"
      BY <1>2, <2>4, <3>1, ThisIsOpen, EndTargetSteps
    <3> QED BY <1>3, <2>2, <2>4, <3>2
  <2> QED BY <2>1, <2>3, <2>4
<1> QED BY <1>4, <1>5, <1>6 DEF WebNext

LEMMA InitTargetInv == Init => TargetInv
<1> SUFFICES ASSUME Init PROVE TargetInv
  OBVIOUS
<1>1. Len(Targets) \in Nat
  BY PageAssumption
<1>2. ProbeType /\ LoginDataType /\ FlagType /\ NumberType /\ url \in Url \cup {NoUrl}
  <2>1. <<>> \in Seq(Checked) /\ 1 \in 1..(Len(Targets) + 1)
    BY <1>1, EmptySeq
  <2>2. ProbeType
    BY <2>1 DEF Init, ProbeType
  <2>3. LoginDataType /\ NumberType
    BY LoginAssumption, PairType DEF Init, LoginDataType, NumberType
  <2>4. FlagType /\ url \in Url \cup {NoUrl}
    BY DEF Init, FlagType
  <2> QED BY <2>2, <2>3, <2>4
<1> QED
  BY <1>2, Types DEF Init, TargetInv, TargetOpen, Tested, LoginUrlKnown, WellformedIsTested, Probing, AfterCurl

LEMMA NextTargetInv == TargetInv /\ [Next]_vars => TargetInv'
<1>1. TargetInv /\ Next => TargetInv'
  BY RestTargetInv, CurlTargetInv, LoginTargetInv, WebTargetInv DEF Next, ProbeNext
<1>2. TargetInv /\ UNCHANGED vars => TargetInv'
  BY DEF vars, probe, flags, login, curl, aux, TargetInv, TypeOK, TargetOpen, Tested, LoginUrlKnown, WellformedIsTested
<1> QED BY <1>1, <1>2

-----------------------------------------------------------------------------
(* What is kept of the targets: the status 200 of the current one has an   *)
(* answer behind it; an entry counts as wellformed only at the end of the  *)
(* list, after the probe has returned for it; a verdict of an earlier      *)
(* probe is still there when the next begins, but with an empty list.      *)
OkIsCurrent == pc \in Probing /\ last_status_code = 200 => curl_success

VerdictIsLast == \A i \in DOMAIN urlchecks :
                   urlchecks[i].wellformed => /\ pc = "done" /\ answer = "true" /\ wellformed
                                              /\ i = Len(urlchecks) /\ urlchecks[i].last = 200

VerdictIsKept == pc = "done" /\ answer = "true" /\ wellformed =>
                   urlchecks # <<>> /\ urlchecks[Len(urlchecks)].wellformed

OldVerdict == pc = "next" /\ wellformed => urlchecks = <<>>

EntryInv == OkMeansAnswered /\ OkIsCurrent /\ VerdictIsLast /\ VerdictIsKept /\ OldVerdict

LEMMA EndTargetAppends ==
  ASSUME TypeOK, NEW check \in Checked, EndTarget(check), check.last # -1
  PROVE  /\ urlchecks' # <<>> /\ Len(urlchecks') = Len(urlchecks) + 1 /\ Len(urlchecks) \in Nat
         /\ DOMAIN urlchecks = 1..Len(urlchecks) /\ DOMAIN urlchecks' = 1..(Len(urlchecks) + 1)
         /\ urlchecks'[Len(urlchecks')] = check
         /\ \A i \in DOMAIN urlchecks : urlchecks'[i] = urlchecks[i]
<1>1. urlchecks \in Seq(Checked) /\ urlchecks' = Append(urlchecks, check)
  BY DEF TypeOK, EndTarget
<1> QED BY <1>1, AppendChecked

(* A target that is given up                                               *)
LEMMA GivenUp ==
  ASSUME TypeOK, EntryInv, pc # "done", ~wellformed', NEW check \in Checked, EndTarget(check),
         ~check.wellformed, check.last = 200 => check.curl_success
  PROVE  EntryInv'
<1>1. pc' = "next"
  BY DEF EndTarget, Goto, Checked
<1>2. \A i \in DOMAIN urlchecks : ~urlchecks[i].wellformed /\ (urlchecks[i].last = 200 => urlchecks[i].curl_success)
  BY DEF EntryInv, VerdictIsLast, OkMeansAnswered
<1>3. \A i \in DOMAIN urlchecks' : ~urlchecks'[i].wellformed /\ (urlchecks'[i].last = 200 => urlchecks'[i].curl_success)
  <2>1. CASE check.last = -1
    BY <1>2, <2>1 DEF EndTarget
  <2>2. CASE check.last # -1
    <3>1. \A i \in DOMAIN urlchecks' : i \in DOMAIN urlchecks \/ urlchecks'[i] = check
      BY <2>2, EndTargetAppends
    <3>2. \A i \in DOMAIN urlchecks : urlchecks'[i] = urlchecks[i]
      BY <2>2, EndTargetAppends
    <3> QED BY <1>2, <3>1, <3>2
  <2> QED BY <2>1, <2>2
<1> QED BY <1>1, <1>3 DEF EntryInv, OkMeansAnswered, OkIsCurrent, VerdictIsLast, VerdictIsKept, OldVerdict,
                          Probing, AfterCurl

(* A step within the probe of a target                                     *)
LEMMA GoesOn ==
  ASSUME EntryInv, pc # "done", pc' \in Probing, UNCHANGED urlchecks, OkIsCurrent'
  PROVE  EntryInv'
  BY DEF EntryInv, OkMeansAnswered, VerdictIsLast, VerdictIsKept, OldVerdict, Probing, AfterCurl

LEMMA CurlEntryInv ==
  ASSUME TargetInv, EntryInv, CurlNext
  PROVE  EntryInv'
<1> USE DEF At, Goto, flags, login, curl, aux, probe
<1>1. TypeOK /\ TypeOK' /\ pc = "curl" /\ ~wellformed /\ (last_status_code = 200 => curl_success)
  BY NextTypes DEF TargetInv, TargetOpen, EntryInv, OkIsCurrent, Probing, Next, ProbeNext, CurlNext,
                   CurlAnswers, CurlFails
<1>2. ~wellformed'
  BY <1>1 DEF CurlNext, CurlAnswers, CurlFails
<1>3. ASSUME NEW s \in Int, EndTarget([ThisCheck EXCEPT !.last = s]), s = 200 => curl_success
      PROVE  EntryInv'
  <2>1. [ThisCheck EXCEPT !.last = s] \in Checked
    BY <1>1, ThisIsChecked
  <2>2. /\ ~[ThisCheck EXCEPT !.last = s].wellformed
        /\ [ThisCheck EXCEPT !.last = s].last = s
        /\ [ThisCheck EXCEPT !.last = s].curl_success = curl_success
    BY <1>1 DEF ThisCheck
  <2> QED BY <1>1, <1>2, <1>3, <2>1, <2>2, GivenUp
<1>4. CASE CurlAnswers
  <2>1. PICK status \in Reply :
          /\ last_status_code' = IF timedout THEN last_status_code ELSE status
          /\ \/ status = 404 /\ EndTarget([ThisCheck EXCEPT !.last = last_status_code'])
             \/ pc' = "curl" /\ curl_success' /\ UNCHANGED urlchecks
             \/ pc' = "type" /\ curl_success /\ UNCHANGED <<curl_success, urlchecks>>
    BY <1>4 DEF CurlAnswers, Recurl
  <2>2. CASE status = 404 /\ EndTarget([ThisCheck EXCEPT !.last = last_status_code'])
    <3>1. last_status_code' \in Int /\ (last_status_code' = 200 => curl_success)
      BY <1>1, <2>1, <2>2 DEF TypeOK
    <3> QED BY <1>3, <2>2, <3>1
  <2>3. CASE pc' \in {"curl", "type"} /\ curl_success' /\ UNCHANGED urlchecks
    BY <1>1, <2>3, GoesOn DEF OkIsCurrent, Probing, AfterCurl
  <2> QED BY <2>1, <2>2, <2>3
<1>5. CASE CurlFails
  <2>1. UNCHANGED curl_success
    BY <1>5 DEF CurlFails
  <2>2. PICK failure \in Failure :
          /\ last_status_code' = FailureStatus(failure)
          /\ \/ UNCHANGED <<pc, probe>>
             \/ EndTarget([ThisCheck EXCEPT !.last = FailureStatus(failure)])
    BY <1>5, CurlFailsBy
  <2>3. FailureStatus(failure) \in Int /\ (FailureStatus(failure) = 200 => curl_success)
    BY <1>1, FailureStatusType DEF FailureStatus
  <2>4. CASE UNCHANGED <<pc, probe>>
    BY <1>1, <2>1, <2>2, <2>3, <2>4, GoesOn DEF OkIsCurrent, Probing
  <2> QED BY <1>3, <2>2, <2>3, <2>4
<1> QED BY <1>4, <1>5 DEF CurlNext

LEMMA LoginEntryInv ==
  ASSUME TargetInv, EntryInv, LoginNext
  PROVE  EntryInv'
<1> USE DEF At, Goto, flags, login, curl, aux, probe
<1>1. /\ TypeOK /\ pc \in {"type", "login", "relogin"} /\ ~wellformed
      /\ last_status_code = 200 => curl_success
  BY DEF TargetInv, TargetOpen, EntryInv, OkIsCurrent, Probing, AfterCurl, LoginNext, NoLogin, LoginNeeded,
         LoginAccepted, LoginConfirmed, LoginRejected
<1>2. UNCHANGED <<wellformed, last_status_code, curl_success>>
  BY DEF LoginNext, NoLogin, LoginNeeded, LoginAccepted, LoginConfirmed, LoginRejected
<1>3. \/ pc' \in Probing /\ UNCHANGED urlchecks
      \/ EndTarget(ThisCheck)
  BY DEF LoginNext, NoLogin, LoginNeeded, LoginAccepted, LoginConfirmed, LoginRejected, LoginPassed, Recurl,
         Probing, AfterCurl
<1>4. CASE pc' \in Probing /\ UNCHANGED urlchecks
  BY <1>1, <1>2, <1>4, GoesOn DEF OkIsCurrent
<1>5. CASE EndTarget(ThisCheck)
  <2>1. /\ ThisCheck \in Checked /\ ~ThisCheck.wellformed
        /\ ThisCheck.last = 200 => ThisCheck.curl_success
    BY <1>1, ThisIsChecked DEF ThisCheck
  <2> QED BY <1>1, <1>2, <1>5, <2>1, GivenUp
<1> QED BY <1>3, <1>4, <1>5

LEMMA WebEntryInv ==
  ASSUME TargetInv, EntryInv, WebNext
  PROVE  EntryInv'
<1> USE DEF At, Goto, flags, login, curl, aux, probe
<1>1. /\ TypeOK /\ pc \in {"web", "look", "second"} /\ ~wellformed /\ curl_success
      /\ last_status_code = 200 => curl_success
  BY DEF TargetInv, TargetOpen, Tested, EntryInv, OkIsCurrent, Probing, AfterCurl, WebNext, Connected,
         NotConnected, BrowserRaises, LooksGood, LooksGoodAgain, LooksBad
<1>2. ASSUME NEW s \in Int, EndTarget([ThisCheck EXCEPT !.last = s]), ~wellformed'
      PROVE  EntryInv'
  <2>1. [ThisCheck EXCEPT !.last = s] \in Checked
    BY <1>1, ThisIsChecked
  <2>2. /\ ~[ThisCheck EXCEPT !.last = s].wellformed
        /\ [ThisCheck EXCEPT !.last = s].curl_success
    BY <1>1 DEF ThisCheck
  <2> QED BY <1>1, <1>2, <2>1, <2>2, GivenUp
<1>3. CASE Connected \/ LooksGood
  <2>1. pc' \in {"look", "second"} /\ UNCHANGED <<urlchecks, curl_success>>
    BY <1>3 DEF Connected, LooksGood
  <2> QED BY <1>1, <2>1, GoesOn DEF OkIsCurrent, Probing, AfterCurl
<1>4. CASE NotConnected
  BY <1>1, <1>2, <1>4 DEF NotConnected
<1>5. CASE BrowserRaises
  <2>1. pc' = "done" /\ answer' = "raised" /\ UNCHANGED <<urlchecks, wellformed>>
    BY <1>5 DEF BrowserRaises
  <2> QED BY <1>1, <2>1 DEF EntryInv, OkMeansAnswered, OkIsCurrent, VerdictIsLast, VerdictIsKept, OldVerdict,
                            Probing, AfterCurl
<1>6. CASE LooksGoodAgain
  <2> DEFINE verdict == [ThisCheck EXCEPT !.last = 200, !.wellformed = TRUE]
  <2>1. verdict \in Checked /\ verdict.wellformed /\ verdict.last = 200 /\ verdict.curl_success
    BY <1>1, ThisIsChecked DEF ThisCheck
  <2>2. EndTarget(verdict) /\ wellformed'
    BY <1>6 DEF LooksGoodAgain
  <2> HIDE DEF verdict
  <2>3. pc' = "done" /\ answer' = "true"
    BY <2>1, <2>2 DEF EndTarget
  <2>4. \A i \in DOMAIN urlchecks : ~urlchecks[i].wellformed /\ (urlchecks[i].last = 200 => urlchecks[i].curl_success)
    BY <1>1 DEF EntryInv, VerdictIsLast, OkMeansAnswered
  <2>5. \A i \in DOMAIN urlchecks' :
          \/ i = Len(urlchecks') /\ urlchecks'[i] = verdict
          \/ i \in DOMAIN urlchecks /\ urlchecks'[i] = urlchecks[i]
    BY <1>1, <2>1, <2>2, EndTargetAppends
  <2>6. urlchecks' # <<>> /\ urlchecks'[Len(urlchecks')] = verdict
    BY <1>1, <2>1, <2>2, EndTargetAppends
  <2> QED BY <2>1, <2>2, <2>3, <2>4, <2>5, <2>6
          DEF EntryInv, OkMeansAnswered, OkIsCurrent, VerdictIsLast, VerdictIsKept, OldVerdict, Probing, AfterCurl
<1>7. CASE LooksBad
  <2>1. PICK status \in Look \ {200} :
          /\ last_status_code' = status
          /\ \/ pc' = "curl" /\ UNCHANGED urlchecks
             \/ EndTarget([ThisCheck EXCEPT !.last = status])
    BY <1>7 DEF LooksBad, Recurl
  <2>2. ~wellformed' /\ status \in Int
    BY <1>1, <1>7 DEF LooksBad, Look
  <2>3. CASE pc' = "curl" /\ UNCHANGED urlchecks
    BY <1>1, <2>1, <2>3, GoesOn DEF OkIsCurrent, Probing
  <2> QED BY <1>2, <2>1, <2>2, <2>3
<1> QED BY <1>3, <1>4, <1>5, <1>6, <1>7 DEF WebNext

LEMMA RestEntryInv ==
  ASSUME TargetInv, EntryInv, NextTarget \/ NoMoreTargets \/ NeverAnswered \/ ProbeAgain \/ Done
  PROVE  EntryInv'
<1> USE DEF At, Goto, flags, login, curl, aux, probe
<1>1. CASE NextTarget
  <2>1. pc = "next" /\ pc' = "curl" /\ UNCHANGED urlchecks /\ last_status_code' = -1
    BY <1>1 DEF NextTarget, FreshStatus
  <2> QED BY <2>1, GoesOn DEF OkIsCurrent, Probing
<1>2. CASE NoMoreTargets
  BY <1>2 DEF NoMoreTargets, EntryInv, OkMeansAnswered, OkIsCurrent, VerdictIsLast, VerdictIsKept, OldVerdict,
              Probing, AfterCurl
<1>3. CASE ProbeAgain
  BY <1>3 DEF ProbeAgain, EntryInv, OkMeansAnswered, OkIsCurrent, VerdictIsLast, VerdictIsKept, OldVerdict,
              Probing, AfterCurl
<1>4. CASE Done
  BY <1>4 DEF Done, vars, EntryInv, OkMeansAnswered, OkIsCurrent, VerdictIsLast, VerdictIsKept, OldVerdict
<1>5. CASE NeverAnswered
  BY <1>5 DEF NeverAnswered, EntryInv, OkMeansAnswered, OkIsCurrent, VerdictIsLast, VerdictIsKept, OldVerdict,
              Probing, AfterCurl
<1> QED BY <1>1, <1>2, <1>3, <1>4, <1>5

LEMMA InitEntryInv == Init => EntryInv
  BY DEF Init, EntryInv, OkMeansAnswered, OkIsCurrent, VerdictIsLast, VerdictIsKept, OldVerdict, Probing, AfterCurl

LEMMA NextEntryInv == TargetInv /\ EntryInv /\ [Next]_vars => EntryInv'
<1>1. TargetInv /\ EntryInv /\ Next => EntryInv'
  BY CurlEntryInv, LoginEntryInv, WebEntryInv, RestEntryInv DEF Next, ProbeNext
<1>2. EntryInv /\ UNCHANGED vars => EntryInv'
  BY DEF vars, probe, flags, EntryInv, OkMeansAnswered, OkIsCurrent, VerdictIsLast, VerdictIsKept, OldVerdict
<1> QED BY <1>1, <1>2

LEMMA VerdictFromEntries ==
  ASSUME TypeOK, EntryInv
  PROVE  VerdictIsExported
<1> SUFFICES ASSUME pc = "done"
             PROVE  /\ Success <=> answer = "true" /\ wellformed
                    /\ Success => /\ WorkingIpSet = {Len(urlchecks)}
                                  /\ urlchecks[Len(urlchecks)].curl_success
  BY DEF VerdictIsExported
<1>1. urlchecks \in Seq(Checked)
  BY DEF TypeOK
<1>2. urlchecks # <<>> => Len(urlchecks) \in DOMAIN urlchecks
  BY <1>1, EmptySeq
<1>3. ASSUME Success PROVE answer = "true" /\ wellformed
  BY <1>3 DEF EntryInv, VerdictIsLast, Success
<1>4. ASSUME answer = "true", wellformed
      PROVE  /\ Success /\ WorkingIpSet = {Len(urlchecks)}
             /\ urlchecks[Len(urlchecks)].curl_success
  <2>1. Len(urlchecks) \in DOMAIN urlchecks /\ urlchecks[Len(urlchecks)].wellformed
    BY <1>2, <1>4 DEF EntryInv, VerdictIsKept
  <2>2. urlchecks[Len(urlchecks)].last = 200 /\ urlchecks[Len(urlchecks)].curl_success
    BY <2>1 DEF EntryInv, VerdictIsLast, OkMeansAnswered
  <2>3. Wellformed = {Len(urlchecks)}
    BY <2>1 DEF EntryInv, VerdictIsLast, Wellformed
  <2>4. WorkingIpSet = {Len(urlchecks)}
    BY <2>3 DEF WorkingIpSet, WithLogin
  <2> QED BY <2>1, <2>2, <2>4 DEF Success
<1> QED BY <1>3, <1>4

-----------------------------------------------------------------------------
(* The checker's variables keep their types.                               *)
THEOREM TypeCorrect == Spec => []TypeOK
<1>1. TargetInv => TypeOK
  BY DEF TargetInv
<1> QED BY <1>1, InitTargetInv, NextTargetInv, PTL DEF Spec

(* WellformedIsTested: whatever pages say and wherever they send the       *)
(* browser, nothing seen at an earlier address counts for the verdict.     *)
THEOREM VerdictIsTested == Spec => []WellformedIsTested
<1>1. TargetInv => WellformedIsTested
  BY DEF TargetInv
<1> QED BY <1>1, InitTargetInv, NextTargetInv, PTL DEF Spec

(* VerdictIsExported: check and get_working_ip_set give the verdict of the *)
(* last target and its address and user, and nothing else.                 *)
THEOREM OnlyVerdictIsExported == Spec => []VerdictIsExported
<1>1. TargetInv /\ EntryInv => VerdictIsExported
  BY VerdictFromEntries DEF TargetInv
<1> QED BY <1>1, InitTargetInv, NextTargetInv, InitEntryInv, NextEntryInv, PTL DEF Spec

(* OkMeansAnswered: no status 200 is kept that no answer stands behind.    *)
THEOREM OkIsAnswered == Spec => []OkMeansAnswered
<1>1. EntryInv => OkMeansAnswered
  BY DEF EntryInv
<1> QED BY <1>1, InitTargetInv, NextTargetInv, InitEntryInv, NextEntryInv, PTL DEF Spec

(* LoginUrlUnlessMoved: the exported address is that of the page, until    *)
(* the browser is sent to another page.                                    *)
THEOREM LoginUrlIsPage == Spec => []LoginUrlUnlessMoved
<1>1. TargetInv => LoginUrlUnlessMoved
  BY DEF TargetInv, LoginUrlKnown, LoginUrlUnlessMoved
<1> QED BY <1>1, InitTargetInv, NextTargetInv, PTL DEF Spec

(* SameUser: a retest of a login keeps its user.                           *)
THEOREM UserStays == Spec => SameUser
<1>1. ASSUME Next, login_success, login_success' PROVE user' = user
  <2> USE <1>1 DEF flags, login, curl, aux, probe
  <2>1. CASE NextTarget \/ NoMoreTargets \/ NeverAnswered \/ ProbeAgain \/ Done
    BY <2>1 DEF NextTarget, NoMoreTargets, NeverAnswered, ProbeAgain, Done, vars
  <2>2. CASE CurlNext
    BY <2>2 DEF CurlNext, CurlAnswers, CurlFails
  <2>3. CASE LoginNext
    BY <2>3 DEF LoginNext, NoLogin, LoginNeeded, LoginAccepted, LoginConfirmed, LoginRejected, Trying
  <2>4. CASE WebNext
    BY <2>4 DEF WebNext, Connected, NotConnected, BrowserRaises, LooksGood, LooksGoodAgain, LooksBad
  <2> QED BY <2>1, <2>2, <2>3, <2>4 DEF Next, ProbeNext
<1>2. [Next]_vars => [login_success /\ login_success' => user' = user]_vars
  BY <1>1
<1> QED BY <1>2, PTL DEF Spec, SameUser
=============================================================================
