------------------------------- MODULE Reads -------------------------------
(***************************************************************************)
(* The handlers that only read the chain: the listing (routers/files.py),  *)
(* the recipients of a file, open requests and notification mails          *)
(* (routers/sharing.py), and the check before a download (security.py).    *)
(*                                                                         *)
(* Each makes several calls and the chain moves on between them; each call *)
(* is a step here.  The handlers keep nothing between requests and share   *)
(* nothing, so one request at a time shows all they can answer.  A request *)
(* that answers with rows is followed along one of its rows: no row uses   *)
(* what was read for another.                                              *)
(***************************************************************************)
EXTENDS Views

CONSTANTS
  Trash,        \* paths under .trash
  Download,     \* the DOWNLOAD bit
  NoCid,
  Unknown       \* owner = None: getFileOwner raised twice

ASSUME ReadsAssumption ==
  /\ Trash \subseteq Paths
  /\ Download \in Bits
  /\ NoCid \notin Cids
  /\ Unknown \notin Users \cup {NoOwner}

VARIABLES
  reader,       \* the request in progress and what it has read so far
  witnessed,    \* history: what held on the chain since its first call
  failed,       \* history: a call of it raised and a default was used
  regained      \* history: open requests whose requester was granted access
                \* again since they asked and still has it

readVars == <<reader, witnessed, failed, regained>>
allVars  == <<vars, readVars>>

(* user makes the request, about is the user its row is about.             *)
Idle == [kind |-> "none", phase |-> "idle", user |-> NoOwner, cid |-> NoCid,
         about |-> NoOwner, owner |-> Unknown, active |-> FALSE, expires |-> 0,
         status |-> "None", listed |-> {}]

ReadsInit == Init /\ reader = Idle /\ witnessed = {} /\ failed = FALSE /\ regained = {}

Entitled(c, u) == fileOwner[c] = u \/ Download \in EffectivePermissions(c, u)

Rows == {"listing", "recipients", "download"}
Decisions == {"Approved", "Denied"}

(* A request is in the queue of the file's owner and its requester is      *)
(* without access, unless it was granted again after they asked.           *)
Open(c, u) ==
  /\ fileOwner[c] # NoOwner /\ <<c, u>> \in ownerPending[fileOwner[c]]
  /\ ~HasAccess(c, u) \/ <<c, u>> \in regained

(* What a request is told is compared with what holds of its user meanwhile. *)
Facts(kind, c, u) ==
  {f \in {"lapsed", "gone", "entitled", "refused", "open", "deleted"} \cup Decisions :
    \/ kind \in {"listing", "recipients"} /\ f = "lapsed" /\ Lapsed(c, u)
    \/ kind \in {"listing", "recipients"} /\ f = "gone" /\ sharedUsers[c][u] = 0
    \/ kind = "download" /\ f = "entitled" /\ Entitled(c, u)
    \/ kind = "download" /\ f = "refused" /\ ~Entitled(c, u)
    \/ kind \in {"requests", "ask"} /\ f = "open" /\ Open(c, u)
    \/ kind \in Decisions /\ f = kind /\ requests[c][u] = kind
    \/ kind \notin Rows /\ f = "deleted" /\ fileOwner[c] = NoOwner}

Watched == IF reader.about = NoOwner THEN {} ELSE Facts(reader.kind, reader.cid, reader.about)

At(kind, phase) == reader.kind = kind /\ reader.phase = phase

(* A request begins with its first call.                                   *)
Begin(r) ==
  /\ reader = Idle
  /\ reader' = r
  /\ witnessed' = IF r.about = NoOwner THEN {} ELSE Facts(r.kind, r.cid, r.about)
  /\ failed' = FALSE
  /\ UNCHANGED <<vars, regained>>

Asked(kind, phase, u, c, v) ==
  [Idle EXCEPT !.kind = kind, !.phase = phase, !.user = u, !.cid = c, !.about = v]

Continue(r) == reader' = r /\ UNCHANGED <<vars, witnessed, failed, regained>>

(* A call raised, and the handler goes on with a default.                  *)
GoOn(r) == reader' = r /\ failed' = TRUE /\ UNCHANGED <<vars, witnessed, regained>>

(* The answer is out, or there is none.                                    *)
Reply ==
  /\ reader # Idle
  /\ reader' = Idle /\ witnessed' = {} /\ failed' = FALSE
  /\ UNCHANGED <<vars, regained>>

-----------------------------------------------------------------------------
(* GET / : one entry of getUserFiles.                                      *)

GetFiles(u) == \E f \in UserFiles(u) : Begin(Asked("listing", "owner", u, f[1], u))

IsOwner == reader.owner = reader.user

IsExpired == reader.owner # Unknown /\ ~IsOwner /\ ~reader.active

(* Followed on: an owned file for its recipients, one owned by another for *)
(* the permissions; a file whose owner cannot be read is shown as it is.   *)
ListOwner ==
  /\ At("listing", "owner")
  /\ LET o == fileOwner[reader.cid]
     IN  \/ Continue([reader EXCEPT !.owner = o,
              !.phase = IF o = reader.user THEN "sharedUsers" ELSE "permissions"])
         \/ GoOn([reader EXCEPT !.phase = "answered"])

(* Only a greyed-out file is followed to its expiry and the status of the  *)
(* recipient's request.                                                    *)
ListPermissions ==
  /\ At("listing", "permissions")
  /\ \/ Continue(IF HasAccess(reader.cid, reader.user)
                  THEN [reader EXCEPT !.phase = "answered", !.active = TRUE]
                  ELSE [reader EXCEPT !.phase = "expiry"])
     \/ GoOn([reader EXCEPT !.phase = "expiry"])

ListExpiry ==
  /\ At("listing", "expiry")
  /\ \/ Continue([reader EXCEPT !.phase = "status",
                               !.expires = expiresAtBlock[reader.cid][reader.user]])
     \/ GoOn([reader EXCEPT !.phase = "status"])

ListStatus ==
  /\ At("listing", "status")
  /\ LET next == [reader EXCEPT !.phase = "answered"]
     IN  \/ Continue([next EXCEPT !.status = requests[reader.cid][reader.user]])
         \/ GoOn(next)

-----------------------------------------------------------------------------
(* GET /shared-users, the same for each cid in /shared-users-batch, and    *)
(* the owner's columns of the listing: who is listed, then whether the     *)
(* grant of one of them still holds.                                       *)

SharedUsers(u, c) ==
  /\ fileOwner[c] = u
  /\ Begin([Asked("recipients", "sharedUsers", u, c, NoOwner) EXCEPT !.owner = u])

(* Reads the list, to follow one of its rows or to compare the list itself. *)
ReadList ==
  /\ reader.phase = "sharedUsers"
  /\ LET list == SharedUsersOf(reader.cid)
         next == [reader EXCEPT !.phase = "answered", !.about = NoOwner, !.active = FALSE]
     IN  \/ Continue([next EXCEPT !.listed = list])
         \/ \E a \in list :
              /\ reader' = [next EXCEPT !.phase = "row", !.about = a]
              /\ witnessed' = (witnessed \cap {"tx"}) \cup Facts(reader.kind, reader.cid, a)
              /\ UNCHANGED <<vars, failed, regained>>
         \/ reader.kind = "listing" /\ GoOn(next)

(* The listing reads the permissions only and leaves a row out when that   *)
(* fails; /shared-users also reads the expiry.                             *)
ReadRow ==
  /\ reader.phase = "row"
  /\ \/ Continue([reader EXCEPT
            !.phase = IF reader.kind = "listing" THEN "answered" ELSE "expiry",
            !.active = HasAccess(reader.cid, reader.about)])
     \/ /\ reader.kind = "listing"
        /\ GoOn([reader EXCEPT !.phase = "answered", !.about = NoOwner])

RecipientsExpiry ==
  /\ At("recipients", "expiry")
  /\ Continue([reader EXCEPT !.phase = "answered",
                             !.expires = expiresAtBlock[reader.cid][reader.about]])

-----------------------------------------------------------------------------
(* GET /share-requests: one of the owner's open requests; the path decides *)
(* whether it is shown.                                                    *)

ShareRequests(u) == \E k \in PendingRequests(u) :
  Begin(Asked("requests", "metadata", u, k[1], k[2]))

RequestsMetadata ==
  /\ At("requests", "metadata")
  /\ LET shown == [reader EXCEPT !.phase = "answered"]
     IN  \/ Continue(IF fileMetadata[reader.cid] \in Trash
                     THEN [reader EXCEPT !.phase = "denied"] ELSE shown)
         \/ GoOn(shown)

-----------------------------------------------------------------------------
(* POST /notify-request by the requester, and /notify-approve and          *)
(* /notify-deny by the owner: a mail goes out when the chain bears it out. *)
(* Besides, only the file's name is read of the chain.                     *)

NotifyRequest(u, c) ==
  /\ requests[c][u] = "Pending"
  /\ Begin([Asked("ask", "owner", u, c, u) EXCEPT !.status = "Pending"])

AskOwner ==
  /\ At("ask", "owner")
  /\ Continue([reader EXCEPT !.phase = "answered", !.owner = fileOwner[reader.cid]])

NotifyDecision(expect, u, c, v) ==
  /\ fileOwner[c] = u
  /\ Begin([Asked(expect, "status", u, c, v) EXCEPT !.owner = u])

BearsOut(status) == [reader EXCEPT !.status = status,
  !.phase = IF reader.kind = "Approved" THEN "expiry" ELSE "answered"]

(* Mutant: any request that was resolved is reported as the caller says.   *)
DecisionStatusUnchecked ==
  /\ reader.kind \in Decisions /\ reader.phase = "status"
  /\ Continue(IF requests[reader.cid][reader.about] \notin {"None", "Pending"}
              THEN BearsOut(reader.kind) ELSE Idle)

DecisionStatus ==
  /\ reader.kind \in Decisions /\ reader.phase = "status"
  /\ Continue(IF requests[reader.cid][reader.about] = reader.kind
              THEN BearsOut(reader.kind) ELSE Idle)

DecisionExpiry ==
  /\ At("Approved", "expiry")
  /\ Continue([reader EXCEPT !.phase = "answered",
                             !.expires = expiresAtBlock[reader.cid][reader.about]])

-----------------------------------------------------------------------------
(* The check before a download, a thumbnail or an entry of a zip file.  A  *)
(* call that raises denies.  What follows reads the node, not the chain.   *)

(* Mutant: the owner is looked up and forgotten.                           *)
StartDownloadOwnerIgnored(u, c) ==
  Begin([Asked("download", "permissions", u, c, u) EXCEPT !.owner = fileOwner[c]])

StartDownload(u, c) ==
  Begin([Asked("download", IF fileOwner[c] = u THEN "answered" ELSE "permissions", u, c, u)
           EXCEPT !.owner = fileOwner[c]])

DownloadPermissions ==
  /\ At("download", "permissions")
  /\ \/ Continue([reader EXCEPT
           !.phase = IF Download \in EffectivePermissions(reader.cid, reader.user)
                     THEN "answered" ELSE "denied"])
     \/ GoOn([reader EXCEPT !.phase = "denied"])

-----------------------------------------------------------------------------
StartRequest == \E u \in Users :
  \/ GetFiles(u)
  \/ ShareRequests(u)
  \/ \E c \in Cids :
       \/ SharedUsers(u, c)
       \/ NotifyRequest(u, c)
       \/ StartDownload(u, c)
       \/ \E expect \in Decisions, v \in Users : NotifyDecision(expect, u, c, v)

ReadStep ==
  \/ ListOwner \/ ListPermissions \/ ListExpiry \/ ListStatus
  \/ ReadList \/ ReadRow \/ RecipientsExpiry
  \/ RequestsMetadata
  \/ AskOwner \/ DecisionStatus \/ DecisionExpiry
  \/ DownloadPermissions

(* A block or a transaction, while no request or this one is in progress.  *)
(* An answer is about the chain as it was when it was given.               *)
ChainStep ==
  /\ reader.phase \notin {"answered", "denied"}
  /\ Next
  /\ UNCHANGED <<reader, failed>>
  /\ regained' = {k \in Keys :
       /\ requests[k[1]][k[2]] = "Pending" /\ requests'[k[1]][k[2]] = "Pending"
       /\ HasAccess(k[1], k[2])'
       /\ HasAccess(k[1], k[2]) => k \in regained}
  /\ witnessed' = IF reader = Idle THEN {}
       ELSE witnessed \cup Watched'
              \cup (IF reader.kind \in Rows /\ block' = block THEN {"tx"} ELSE {})

ReadsNext == StartRequest \/ ReadStep \/ Reply \/ ChainStep

ReadsSpec == ReadsInit /\ [][ReadsNext]_allVars

-----------------------------------------------------------------------------
Answered(kind) == reader.kind = kind /\ reader.phase = "answered"

(* A row says that access ran out: the greyed-out file of a recipient, or  *)
(* the lapsed recipient shown to the owner.                                *)
ShownAsLapsed ==
  /\ reader.about # NoOwner
  /\ \/ Answered("listing") /\ (IsExpired \/ (IsOwner /\ ~reader.active))
     \/ Answered("recipients") /\ ~reader.active

(* Whatever transactions and blocks come between the calls of get_files or *)
(* /shared-users: a row that says access ran out is about a grant that had *)
(* run out, or was taken out of the file's list, at some moment of the     *)
(* request, unless the permissions could not be read.  It holds because a  *)
(* listed recipient always has bits stored.                                *)
ShownAsLapsedIsOver == ~failed /\ ShownAsLapsed => witnessed \cap {"lapsed", "gone"} # {}

(* If no transaction came between the calls, the recipient who sees a file *)
(* greyed out is in the state the interface offers: their request is       *)
(* pending, or requestAccess would take a new one.                         *)
GreyedOutMayAsk ==
  Answered("listing") /\ IsExpired /\ ~failed /\ "tx" \notin witnessed =>
    LET c == reader.cid
        u == reader.user
    IN  /\ fileOwner[c] \notin {NoOwner, u}
        /\ expiresAtBlock[c][u] # 0 /\ reader.expires = expiresAtBlock[c][u]
        /\ EffectivePermissions(c, u) = {}
        /\ reader.status = "Pending" <=> <<c, u>> \in ownerPending[fileOwner[c]]

(* If no transaction came between, the list of recipients that the owner   *)
(* sees leaves out nobody who can use the file but the owner and those who *)
(* deleted it once as its owner, and a lapsed row has its block behind it. *)
RecipientsAreComplete ==
  reader.phase = "answered" /\ reader.kind \in {"listing", "recipients"}
    /\ IsOwner /\ ~failed /\ "tx" \notin witnessed =>
    /\ reader.about = NoOwner => \A u \in Users : HasAccess(reader.cid, u) =>
         u \in reader.listed \cup {reader.owner} \cup formerOwners[reader.cid]
    /\ Answered("recipients") /\ ShownAsLapsed => reader.expires \in 1..block

(* Whatever transactions come between the calls of /share-requests: a      *)
(* request shown to an owner was open at some moment of it, is about a     *)
(* file that is not in the trash, and theirs to approve or deny, unless    *)
(* the file was deleted meanwhile.                                         *)
ShownRequestsAreOpen == Answered("requests") =>
  /\ "open" \in witnessed
  /\ failed \/ fileMetadata[reader.cid] \notin Trash
  /\ \/ "deleted" \in witnessed
     \/ fileOwner[reader.cid] = reader.user /\ reader.about # reader.user

(* Whatever transactions come between the calls.  A mail that asks for     *)
(* time says truly at some moment that the requester awaits an answer and  *)
(* has no access any more, unless the owner granted it again after they    *)
(* asked, and goes to the owner who can answer.  A decision mail comes of  *)
(* a decision that stood at some moment, from the owner to somebody else,  *)
(* and a block it names is the end of a grant that is stored.  A file that *)
(* was deleted meanwhile may have another owner.                           *)
MailsAreTrue ==
  /\ Answered("ask") =>
       /\ "open" \in witnessed
       /\ \/ "deleted" \in witnessed
          \/ reader.owner = fileOwner[reader.cid] /\ reader.owner \notin {NoOwner, reader.user}
  /\ \A expect \in Decisions : Answered(expect) =>
       /\ expect \in witnessed
       /\ \/ "deleted" \in witnessed
          \/ fileOwner[reader.cid] = reader.user /\ reader.about # reader.user
       /\ reader.expires # 0 => /\ reader.expires = expiresAtBlock[reader.cid][reader.about]
                                /\ permissions[reader.cid][reader.about] # {}

(* Whatever comes between the calls of can_download, content is sent only  *)
(* to who could download it at some moment of the request.  If no call     *)
(* failed and no transaction came between, nobody is refused who could     *)
(* download throughout, not even an owner whose own bits ran out.          *)
DownloadIsEntitled ==
  /\ Answered("download") => "entitled" \in witnessed
  /\ reader.kind = "download" /\ reader.phase = "denied" /\ ~failed /\ "tx" \notin witnessed =>
       "refused" \in witnessed
=============================================================================
