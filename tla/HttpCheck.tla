------------------------------ MODULE HttpCheck ------------------------------
(***************************************************************************)
(* The checker of a rehosted web service: HTTPInteractionCheck.probe over  *)
(* the addresses and ports that may answer, URLCheck.probe on each of them *)
(* (requests, login, two looks with a browser, new addresses), and what    *)
(* check and get_working_ip_set make of the result.                        *)
(*                                                                         *)
(* What the service does with each request is chosen freely, so it may     *)
(* change its mind, crash and come back between any two of them.           *)
(***************************************************************************)
EXTENDS Integers, Sequences, FiniteSets

CONSTANTS Page,        \* what addresses lead to, whatever their spelling
          Targets,     \* the page of each address and port, in the order they are probed
          TlsPort,     \* the pages at a port that ends in 443
          Leads,       \* for each page, the pages its browser may end up at
          LoginType,   \* kinds of login other than "none" and "unknown"
          User,        \* users with their passwords
          Pairs,       \* those that are tried, in this order
          NoUser,      \* the empty user with the empty password
          NoUrl

ASSUME PageAssumption == /\ Targets \in Seq(Page) /\ TlsPort \subseteq Page
                         /\ Leads \in [Page -> SUBSET Page]
ASSUME LoginAssumption == /\ Pairs \in Seq(User) /\ Pairs # <<>> /\ NoUser \in User
                          /\ "none" \notin LoginType

MAX_RETRIES == 3

(* An address as it is typed (http://ip:80) or as a browser shows it.      *)
Url == [page : Page, tls : BOOLEAN, typed : BOOLEAN]

ASSUME NoUrlAssumption == NoUrl \notin Url

VARIABLES
  pc,
  next,          \* the target to probe next
  urlchecks,     \* what is kept of the probed targets
  answer,        \* what HTTPInteractionCheck.probe returned
  (* the current URLCheck *)
  url, curl_success, login_success, login_needed, login_type, loginurl, user,
  wellformed, last_status_code, timedout,
  tries, is_ssl, \* of curlcheck
  pair,          \* of logincheck
  (* auxiliary, since the current address was adopted: *)
  passes,        \* requests that were answered well
  confirmed,     \* the user was accepted twice in a row
  moved          \* of the current target: the address was replaced by another page's

flags == <<curl_success, login_success, login_needed>>
login == <<login_type, loginurl, user>>
curl == <<tries, is_ssl, timedout>>
aux == <<passes, confirmed, moved>>
probe == <<next, urlchecks, answer>>
vars == <<pc, probe, url, flags, login, wellformed, last_status_code, curl, pair, aux>>

Reply == {200, 401, 404}     \* 404: any other status
Failure == {"timeout", "closed", "reset", "refused"}
Look == {200, 401, 204, -1}  \* 204: any other status; -1: not a page

Checked == [last : Int, wellformed : BOOLEAN, curl_success : BOOLEAN,
            login_type : LoginType \cup {"none"}, loginurl : Url \cup {NoUrl}, user : User]

TypeOK ==
  /\ pc \in {"next", "curl", "type", "login", "relogin", "web", "look", "second", "done",
            "hung"}
  /\ next \in 1..(Len(Targets) + 1)
  /\ urlchecks \in Seq(Checked)
  /\ answer \in {"none", "true", "false", "raised"}
  /\ url \in Url \cup {NoUrl}
  /\ {curl_success, login_success, login_needed, wellformed, timedout, is_ssl} \subseteq BOOLEAN
  /\ login_type \in LoginType \cup {"none"} /\ loginurl \in Url \cup {NoUrl} /\ user \in User
  /\ last_status_code \in Int
  /\ tries \in 0..MAX_RETRIES /\ pair \in DOMAIN Pairs
  /\ passes \in 0..3 /\ {confirmed, moved} \subseteq BOOLEAN

Init ==
  /\ pc = "next" /\ next = 1 /\ urlchecks = <<>> /\ answer = "none"
  /\ url = NoUrl /\ curl_success = FALSE /\ login_success = FALSE /\ login_needed = FALSE
  /\ login_type = "none" /\ loginurl = NoUrl /\ user = NoUser
  /\ wellformed = FALSE /\ last_status_code = -1 /\ timedout = FALSE
  /\ tries = 0 /\ is_ssl = FALSE /\ pair = 1
  /\ passes = 0 /\ confirmed = FALSE /\ moved = FALSE

At(step) == pc = step
Goto(step) == pc' = step

FreshLogin == login_type' = "none" /\ loginurl' = NoUrl /\ user' = NoUser

FreshStatus == wellformed' = FALSE /\ last_status_code' = -1

(* A new URLCheck and the first lines of its probe                         *)
NextTarget ==
  /\ At("next") /\ next <= Len(Targets)
  /\ url' = [page |-> Targets[next], tls |-> FALSE, typed |-> TRUE]
  /\ next' = next + 1
  /\ curl_success' = FALSE /\ login_success' = FALSE /\ login_needed' = FALSE
  /\ FreshLogin
  /\ FreshStatus
  /\ tries' = 0 /\ is_ssl' = FALSE /\ timedout' = FALSE
  /\ passes' = 0 /\ confirmed' = FALSE /\ moved' = FALSE
  /\ Goto("curl")
  /\ UNCHANGED <<urlchecks, answer, pair>>

NoMoreTargets ==
  /\ At("next") /\ next > Len(Targets)
  /\ answer' = IF urlchecks = <<>> THEN "false" ELSE "true"
  /\ Goto("done")
  /\ UNCHANGED <<next, urlchecks, url, flags, login, wellformed, last_status_code, curl, pair, aux>>

(* What is kept of the target, as it stands before the step                *)
ThisCheck == [last |-> last_status_code, wellformed |-> wellformed, curl_success |-> curl_success,
              login_type |-> login_type, loginurl |-> loginurl, user |-> user]

(* Broken variant: the other targets are probed, too. *)
EndTargetNoStop(check) ==
  /\ urlchecks' = IF check.last = -1 THEN urlchecks ELSE Append(urlchecks, check)
  /\ Goto("next")
  /\ UNCHANGED <<next, answer>>

(* URLCheck.probe returns: a target with any status is kept, a wellformed  *)
(* one ends the search.                                                    *)
EndTarget(check) ==
  /\ urlchecks' = IF check.last = -1 THEN urlchecks ELSE Append(urlchecks, check)
  /\ IF check.wellformed THEN answer' = "true" /\ Goto("done") ELSE UNCHANGED answer /\ Goto("next")
  /\ UNCHANGED next

(* The address of a request; curlcheck keeps https once it has turned to it. *)
Requested == IF is_ssl THEN [url EXCEPT !.tls = TRUE] ELSE url

Recurl == tries' = 0 /\ is_ssl' = FALSE /\ Goto("curl")

(* A request is answered: the first good answer is asked for again, the    *)
(* next leads to the login.  After a timeout the status stays 408.         *)
CurlAnswers ==
  /\ At("curl")
  /\ \E status \in Reply :
       /\ url' = Requested
       /\ last_status_code' = IF timedout THEN last_status_code ELSE status
       /\ \/ /\ status = 404
             /\ EndTarget([ThisCheck EXCEPT !.last = last_status_code'])
             /\ UNCHANGED <<curl_success, loginurl, tries, is_ssl, passes>>
          \/ /\ status # 404 /\ ~curl_success
             /\ curl_success' = TRUE
             /\ passes' = 1
             /\ Recurl
             /\ UNCHANGED <<probe, loginurl>>
          \/ /\ status # 404 /\ curl_success
             /\ passes' = IF passes < 3 THEN passes + 1 ELSE 3
             /\ loginurl' = IF loginurl = NoUrl THEN Requested ELSE loginurl
             /\ Goto("type")
             /\ UNCHANGED <<probe, curl_success, tries, is_ssl>>
  /\ UNCHANGED <<login_success, login_needed, login_type, user, wellformed, timedout, pair,
                 confirmed, moved>>

Ends443(u) == u.typed /\ u.page \in TlsPort

MayRetry == tries < MAX_RETRIES

(* What a failed request leaves in last_status_code                        *)
FailureStatus(failure) == CASE failure = "timeout" -> 408
                            [] failure = "closed" -> 202  \* or 400: a bad status line
                            [] OTHER -> last_status_code

(* A request fails, and is sent again over TLS at most MAX_RETRIES times:  *)
(* after a reset, and at a port for TLS if there is a status to doubt.     *)
CurlFails ==
  /\ At("curl")
  /\ \E failure \in Failure :
       LET reset == failure = "reset"
           plain443 == FailureStatus(failure) # -1 /\ ~is_ssl /\ ~reset /\ Ends443(url)
       IN /\ url' = Requested
          /\ timedout' = (timedout \/ failure = "timeout")
          /\ last_status_code' = FailureStatus(failure)
          /\ is_ssl' = (is_ssl \/ reset \/ plain443)
          /\ IF (reset \/ plain443) /\ MayRetry
               THEN tries' = tries + 1 /\ UNCHANGED <<pc, probe>>
               ELSE UNCHANGED tries /\ EndTarget([ThisCheck EXCEPT !.last = FailureStatus(failure)])
  /\ UNCHANGED <<flags, login, wellformed, pair, aux>>

-----------------------------------------------------------------------------
(* A request that never returns: check_login_type and most logins send it  *)
(* without a timeout, and the timeout of the others counts from one piece  *)
(* of the answer to the next.  The probe, and who waits for it, stay there. *)
NeverAnswered ==
  /\ pc \in {"curl", "type", "login", "relogin"}
  /\ Goto("hung")
  /\ UNCHANGED <<probe, url, flags, login, wellformed, last_status_code, curl, pair, aux>>

(* The end of logincheck with logged_in or no login needed: the first time *)
(* a login was needed the page is requested again with it.                 *)
LoginPassed(needed) ==
  /\ login_success' = TRUE
  /\ login_needed' = IF login_success THEN login_needed ELSE needed
  /\ IF ~login_success /\ needed
       THEN Recurl
       ELSE Goto("web") /\ UNCHANGED <<tries, is_ssl>>

(* check_login_type; a connection error counts as no login needed.         *)
NoLogin ==
  /\ At("type")
  /\ LoginPassed(FALSE)
  /\ UNCHANGED <<probe, url, curl_success, login, wellformed, last_status_code, timedout, pair, aux>>

LoginNeeded ==
  /\ At("type")
  /\ login_type' \in LoginType
  /\ pair' = 1
  /\ Goto("login")
  /\ UNCHANGED <<probe, url, flags, loginurl, user, wellformed, last_status_code, curl, aux>>

(* Once logged in only the same user is tried again.                       *)
Trying == IF login_success THEN user ELSE Pairs[pair]

LoginAccepted ==
  /\ At("login")
  /\ Goto("relogin")
  /\ UNCHANGED <<probe, url, flags, login, wellformed, last_status_code, curl, pair, aux>>

LoginConfirmed ==
  /\ At("relogin")
  /\ user' = Trying
  /\ loginurl' = url
  /\ confirmed' = TRUE
  /\ LoginPassed(TRUE)
  /\ UNCHANGED <<probe, url, curl_success, login_type, wellformed, last_status_code, timedout, pair,
                 passes, moved>>

(* The first or the second attempt of a pair fails or raises.              *)
LoginRejected ==
  /\ pc \in {"login", "relogin"}
  /\ \/ pair < Len(Pairs) /\ pair' = pair + 1 /\ Goto("login") /\ UNCHANGED probe
     \/ pair = Len(Pairs) /\ UNCHANGED pair /\ EndTarget(ThisCheck)
  /\ UNCHANGED <<url, flags, login, wellformed, last_status_code, curl, aux>>

-----------------------------------------------------------------------------
(* webcheck: the browser loads the page once and looks at it twice.        *)
Connected ==
  /\ At("web")
  /\ Goto("look")
  /\ UNCHANGED <<probe, url, flags, login, wellformed, last_status_code, curl, pair, aux>>

NotConnected ==
  /\ At("web")
  /\ last_status_code' = -1
  /\ EndTarget([ThisCheck EXCEPT !.last = -1])
  /\ UNCHANGED <<url, flags, login, wellformed, curl, pair, aux>>

(* The browser cannot be started or ended: nothing catches it here.        *)
BrowserRaises ==
  /\ pc \in {"web", "look", "second"}
  /\ answer' = "raised"
  /\ Goto("done")
  /\ UNCHANGED <<next, urlchecks, url, flags, login, wellformed, last_status_code, curl, pair, aux>>

LooksGood ==
  /\ At("look")
  /\ last_status_code' = 200
  /\ Goto("second")
  /\ UNCHANGED <<probe, url, flags, login, wellformed, curl, pair, aux>>

LooksGoodAgain ==
  /\ At("second")
  /\ wellformed' = TRUE
  /\ last_status_code' = 200
  /\ EndTarget([ThisCheck EXCEPT !.last = 200, !.wellformed = TRUE])
  /\ UNCHANGED <<url, flags, login, curl, pair, aux>>

(* The address a browser shows, perhaps after being sent on.               *)
Shown(u) == [page : Leads[u.page] \cup {u.page}, tls : {u.tls, TRUE}, typed : {FALSE}]

(* Broken variant: the same address is tried again. *)
AnyAddress(shown) == TRUE

OtherAddress(shown) == shown # url

(* Broken variant: a login counts for every address. *)
StartOverLoggedIn == curl_success' = FALSE /\ UNCHANGED login_success

StartOver == curl_success' = FALSE /\ login_success' = FALSE

(* A page that asks for a login is probed from the start at the address    *)
(* the browser shows, if that is another one.                              *)
LooksBad ==
  /\ pc \in {"look", "second"}
  /\ \E status \in Look \ {200}, shown \in Shown(url) :
       /\ last_status_code' = status
       /\ IF status = 401 /\ OtherAddress(shown)
            THEN /\ url' = shown
                 /\ StartOver
                 /\ passes' = 0 /\ confirmed' = FALSE
                 /\ moved' = (moved \/ shown.page # url.page)
                 /\ Recurl
                 /\ UNCHANGED probe
            ELSE /\ EndTarget([ThisCheck EXCEPT !.last = status])
                 /\ UNCHANGED <<url, curl_success, login_success, tries, is_ssl, aux>>
  /\ UNCHANGED <<login_needed, login, wellformed, timedout, pair>>

-----------------------------------------------------------------------------
(* The success of check with strict set                                    *)
Success == \E i \in DOMAIN urlchecks : urlchecks[i].last = 200 /\ urlchecks[i].wellformed

(* get_working_ip_set: a wellformed entry, one with a known login before   *)
(* the others; which of several depends on the spelling of the addresses.  *)
Wellformed == {i \in DOMAIN urlchecks : urlchecks[i].wellformed}
WithLogin == {i \in Wellformed : urlchecks[i].login_type # "none"}
WorkingIpSet == IF WithLogin # {} THEN WithLogin ELSE Wellformed

(* The rounds of Rehosting.run probe again with the same checker, unless   *)
(* an exception has ended them.                                            *)
ProbeAgain ==
  /\ At("done") /\ answer # "raised"
  /\ next' = 1 /\ urlchecks' = <<>> /\ answer' = "none"
  /\ Goto("next")
  /\ UNCHANGED <<url, flags, login, wellformed, last_status_code, curl, pair, aux>>

Done == pc \in {"done", "hung"} /\ UNCHANGED vars

CurlNext == CurlAnswers \/ CurlFails
LoginNext == NoLogin \/ LoginNeeded \/ LoginAccepted \/ LoginConfirmed \/ LoginRejected
WebNext == Connected \/ NotConnected \/ BrowserRaises \/ LooksGood \/ LooksGoodAgain \/ LooksBad
ProbeNext == NextTarget \/ NoMoreTargets \/ NeverAnswered \/ CurlNext \/ LoginNext \/ WebNext

Next == ProbeNext \/ ProbeAgain \/ Done

Spec == Init /\ [][Next]_vars

(* A request returns, fails or has become NeverAnswered; the browser has a *)
(* timeout, and alerts of a page do not come back for ever.  Nobody has to *)
(* probe again.                                                            *)
FairSpec == Spec /\ WF_vars(ProbeNext)
-----------------------------------------------------------------------------
(* A wellformed verdict was earned at the address it is given for: after   *)
(* the last change of address the page was requested twice, once more with *)
(* a login, the stored user was accepted twice in a row if a login is      *)
(* needed, and the browser saw the page.  No earlier address, flag or      *)
(* credential counts for it.                                               *)
WellformedIsTested ==
  wellformed => /\ last_status_code = 200
                /\ curl_success /\ login_success
                /\ passes >= 2
                /\ login_needed => confirmed /\ passes = 3

(* probe, check and get_working_ip_set agree: check succeeds exactly when  *)
(* the last target was found wellformed, its entry then also counts as     *)
(* connected, and its address and user are the only ones that can be       *)
(* exported, however the entries are sorted.                               *)
VerdictIsExported ==
  pc = "done" =>
    /\ Success <=> answer = "true" /\ wellformed
    /\ Success => WorkingIpSet = {Len(urlchecks)} /\ urlchecks[Len(urlchecks)].curl_success

(* The address that is exported with a page is that page's, though it was  *)
(* taken before the login and the looks, as long as no page has sent the   *)
(* browser to another one.                                                 *)
LoginUrlUnlessMoved == wellformed /\ ~moved => loginurl.page = url.page

(* A status 200 that is kept comes from an answer of the service that was  *)
(* still believed at the end, not from an earlier target or address.       *)
OkMeansAnswered ==
  \A i \in DOMAIN urlchecks : urlchecks[i].last = 200 => urlchecks[i].curl_success

(* After a login was found to work no other user is tried at that address: *)
(* the retests cannot replace the credentials they are to confirm.         *)
SameUser == [][login_success /\ login_success' => user' = user]_vars

(* A probe ends or comes to a request that never returns: retries, logins, *)
(* repeated requests and new addresses come to an end, whatever the        *)
(* service answers, if its pages do not send the browser in a circle.      *)
ProbeEnds == (pc # "done") ~> (pc \in {"done", "hung"})
=============================================================================
