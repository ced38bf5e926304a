---------------------------- MODULE Entitlements ----------------------------
(***************************************************************************)
(* cmd/satellite/entitlements.go: the admin commands that set, for every  *)
(* active project of every active user, either the new-bucket placements *)
(* or the product-placement mapping.  processAllUsers pages through the  *)
(* active users with a page-number cursor while the satellite keeps       *)
(* running, so users change status between two pages.                     *)
(*                                                                         *)
(* Users.GetByStatus is outside the sources modelled here: it is taken to *)
(* return the Limit active users at offset (Page-1)*Limit in id order,   *)
(* and PageCount = ceil(active users / Limit), both read in one query.   *)
(***************************************************************************)
EXTENDS Naturals, FiniteSets, Sequences, SequencesExt

CONSTANTS
    NumUsers,          \* users 1..NumUsers, in the order GetByStatus lists them
    Limit,             \* UserCursor.Limit (500)
    Projects,          \* project records: [owner, active, placement, partner]
    DefaultPlacement,  \* storj.DefaultPlacement
    Allowed,           \* AllowedPlacementIdsForNewProjects
    NewPlacementChoices, \* the --json placements a caller passes, or Nil
    MappingChoices,    \* the --json product-placement mapping, or Nil
    DefaultPartnerMap, \* defaultPartnerMap: partner -> (placement -> product)
    NoPartner,         \* the partner "" of a project without user agent
    InitialActive,     \* users active when the command starts
    MaxChanges,        \* bound on status changes during one run
    Targets,           \* the target flags callers pass: "all", "email", "csv",
                       \* or "both" (--email and --csv)
    SelfServe,         \* placements with SelfServeDetails
    Products,          \* product IDs of Payments.Products
    BadJSON,           \* a --json value json.Unmarshal rejects
    EmailArgs,         \* the --email values: a user, UnknownEmail or InvalidEmail
    CSVFiles,          \* the --csv files: sequences of first columns, each a
                       \* user's email, UnknownEmail, InvalidEmail or EmptyRecord
    UnknownEmail,      \* a well-formed email no user has
    InvalidEmail,      \* a string utils.ValidateEmail rejects
    EmptyRecord,       \* a CSV record without columns
    Nil

Users == 1..NumUsers

ASSUME Limit \in Nat \ {0} /\ InitialActive \subseteq Users
ASSUME NoPartner \in DOMAIN DefaultPartnerMap

VARIABLES
    action,     \* args.action: "placements" or "mapping"
    newPl,      \* args.newPlacements
    ppm,        \* args.productPlacementMap
    status,     \* each user's console status
    toggled,    \* users whose status changed during the run
    pc,         \* "validate", "parse", "confirm", "fetch", "users", "emails",
                \*   "close" (the deferred satDB.Close), "done"
    page,       \* cursor.Page
    pageCount,  \* usersPage.PageCount
    batch,      \* usersPage.Users
    bi,         \* the user of the batch the loop is at
    errList,    \* the errors collected so far
    processed,  \* users whose projects the loop reached (ghost)
    placementsOf, \* per project: the new-bucket placements set, or Nil
    mappingOf,  \* per project: the product-placement mapping set, or Nil
    result,     \* Nil while running, then "ok" or "err"
    confirmed,  \* the operator's answer to askForConfirmation (ghost)
    target,     \* which of processAllUsers, processUserEmail, processCSVFile runs
    csv,        \* the CSV file's records
    emails,     \* the emails processUserEmail is called for, in order
    ei          \* the email the loop is at

vars == <<action, newPl, ppm, status, toggled, pc, page, pageCount, batch, bi,
          errList, processed, placementsOf, mappingOf, result, confirmed,
          target, csv, emails, ei>>

cmdVars == <<action, newPl, ppm, pc, page, pageCount, batch, bi, errList,
             processed, placementsOf, mappingOf, result, confirmed,
             target, csv, emails, ei>>

inputVars == <<target, csv, emails, ei>>

-----------------------------------------------------------------------------
(***************************************************************************)
(* processProject.                                                        *)
(***************************************************************************)
\* args.defaultPartnerMap[partner], falling back to the "" mapping.
PartnerMapping(partner) ==
    IF partner \in DOMAIN DefaultPartnerMap /\ DefaultPartnerMap[partner] # Nil
    THEN DefaultPartnerMap[partner]
    ELSE DefaultPartnerMap[NoPartner]

\* for placement, productID := range mapping {
\*     productPlacementMap[productID] = []PlacementConstraint{placement} }
\* in the given iteration order.
InvertInOrder(mapping, order) ==
    FoldLeft(LAMBDA acc, pl : (mapping[pl] :> {pl}) @@ acc,
             [x \in {} |-> {}], order)

\* Go's map iteration order is unspecified: every order is possible.
InvertedMappings(mapping) ==
    {InvertInOrder(mapping, order) : order \in SetToSeqs(DOMAIN mapping)}

\* The new-bucket placements processProject sets for project p.
PlacementsFor(p) ==
    IF newPl # Nil THEN newPl
    ELSE IF p.placement = DefaultPlacement THEN Allowed
    ELSE {p.placement}

\* The product-placement mappings processProject may set for project p.
MappingsFor(p) ==
    IF ppm # Nil THEN {ppm} ELSE InvertedMappings(PartnerMapping(p.partner))

\* Projects().GetOwnActive(user)
OwnActive(u) == {p \in Projects : p.owner = u /\ p.active}

-----------------------------------------------------------------------------
(***************************************************************************)
(* The flag checks of the two commands, before any user is touched.      *)
(***************************************************************************)
\* cmdSetNewBucketPlacements: --json parses and names self-serve placements.
PlacementsArgValid(pls) == pls = Nil \/ (pls # BadJSON /\ pls \subseteq SelfServe)

\* setProductPlacementMap: --json parses, and every product ID is priced
\* and every placement self-serve.
MappingArgValid(m) ==
    \/ m = Nil
    \/ /\ m # BadJSON
       /\ \A prod \in DOMAIN m : prod \in Products /\ m[prod] \subseteq SelfServe

(***************************************************************************)
(* Reject --email with --csv and an invalid --json; then open the         *)
(* satellite DB (and, for the mapping, convert the product prices), either*)
(* of which may fail; then run the target's processing.                   *)
(***************************************************************************)
\* Determine which users/projects to target.
DispatchTarget ==
    CASE target = "email" -> "emails"
      [] target = "csv"   -> "parse"
      [] target = "all"   -> "confirm"

Validate ==
    /\ pc = "validate"
    /\ LET argsOk == /\ target # "both"
                     /\ IF action = "placements" THEN PlacementsArgValid(newPl)
                        ELSE MappingArgValid(ppm)
       IN  \* satellitedb.Open may fail: cmdSetProductPlacementMap opens the
           \* database before the flag checks, cmdSetNewBucketPlacements after.
           IF argsOk
           THEN \/ pc' = "done" /\ result' = "err"
                \/ pc' = DispatchTarget /\ UNCHANGED result
           ELSE /\ result' = "err"
                /\ pc' \in IF action = "mapping" THEN {"done", "close"} ELSE {"done"}
    /\ UNCHANGED <<action, newPl, ppm, status, toggled, page, pageCount, batch, bi,
                   errList, processed, placementsOf, mappingOf, confirmed, inputVars>>

-----------------------------------------------------------------------------
\* The active users in id order, as GetByStatus(console.Active) lists them.
ActiveList == SelectSeq([k \in Users |-> k], LAMBDA u : status[u] = "active")

CeilDiv(n, d) == (n + d - 1) \div d

\* askForConfirmation: "n" returns nil and changes nothing.
Confirm ==
    /\ pc = "confirm"
    /\ \/ /\ pc' = IF target = "csv" THEN "emails" ELSE "fetch"
          /\ confirmed' = TRUE /\ UNCHANGED result
       \/ /\ pc' = "close" /\ confirmed' = FALSE /\ result' = "ok"
    /\ UNCHANGED <<action, newPl, ppm, status, toggled, page, pageCount, batch, bi,
                   errList, processed, placementsOf, mappingOf, inputVars>>

\* if err := errList.Err(); err != nil { return ... }; return nil
Finish == pc' = "close" /\ result' = IF errList' = 0 THEN "ok" ELSE "err"

\* GetByStatus(ctx, console.Active, cursor): an error returns at once; an
\* empty page ends the loop.
FetchPage ==
    /\ pc = "fetch"
    /\ \/ pc' = "close" /\ result' = "err"
          /\ UNCHANGED <<pageCount, batch, bi, errList>>
       \/ LET offset == (page - 1) * Limit
              users  == SubSeq(ActiveList, offset + 1,
                               IF offset + Limit < Len(ActiveList)
                               THEN offset + Limit ELSE Len(ActiveList))
          IN  IF users = <<>>
              THEN UNCHANGED <<pageCount, batch, bi, errList>> /\ Finish
              ELSE /\ pc' = "users"
                   /\ batch' = users
                   /\ bi' = 1
                   /\ pageCount' = CeilDiv(Len(ActiveList), Limit)
                   /\ UNCHANGED <<errList, result>>
    /\ UNCHANGED <<action, newPl, ppm, status, toggled, page, processed,
                   placementsOf, mappingOf, confirmed, inputVars>>

\* Mutant: the page number not advanced.
NextPageStuck(pg) == pg

\* cursor.Page++
NextPage(pg) == pg + 1

\* Mutant: a failing processProject not added to errList.
ProjectErrorsDropped(failed) == 0

\* if err = processProject(...); err != nil { errList.Add(err) }
ProjectErrors(failed) == Cardinality(failed)

\* processProject for each project of done: the entitlements it sets.
SetEntitlements(done) ==
    IF action = "placements"
    THEN /\ placementsOf' = [p \in DOMAIN placementsOf |->
                               IF p \in done THEN PlacementsFor(p) ELSE placementsOf[p]]
         /\ UNCHANGED mappingOf
    ELSE /\ \E m \in [done -> UNION {MappingsFor(p) : p \in done}] :
               /\ \A p \in done : m[p] \in MappingsFor(p)
               /\ mappingOf' = [p \in DOMAIN mappingOf |->
                                  IF p \in done THEN m[p] ELSE mappingOf[p]]
         /\ UNCHANGED placementsOf

(***************************************************************************)
(* One user of the page: GetOwnActive, then processProject for each      *)
(* project; every error is added to errList and the loop goes on.  After *)
(* the page's last user: stop at the last page, else fetch the next.     *)
(***************************************************************************)
ProcessUser ==
    /\ pc = "users"
    /\ LET u == batch[bi] IN
       (\/ /\ errList' = errList + 1
           /\ UNCHANGED <<processed, placementsOf, mappingOf>>
        \/ \E failed \in SUBSET OwnActive(u) :
            LET done == OwnActive(u) \ failed IN
            /\ errList' = errList + ProjectErrors(failed)
            /\ processed' = processed \cup {u}
            /\ SetEntitlements(done))
    /\ IF bi < Len(batch)
       THEN bi' = bi + 1 /\ UNCHANGED <<pc, page, result>>
       ELSE IF page >= pageCount
            THEN Finish /\ UNCHANGED <<bi, page>>
            ELSE pc' = "fetch" /\ page' = NextPage(page) /\ UNCHANGED <<bi, result>>
    /\ UNCHANGED <<action, newPl, ppm, status, toggled, pageCount, batch, confirmed,
                   inputVars>>

-----------------------------------------------------------------------------
(***************************************************************************)
(* processCSVFile: read the records, keep the first column of each       *)
(* non-empty one, skip row 0 when it is not an email (a header), collect *)
(* the other invalid ones; fail on an empty file, on any invalid email   *)
(* and when no email is left; then confirm and call processUserEmail    *)
(* (without validation) for each email, collecting the errors.           *)
(***************************************************************************)
ValidEmail(row) == row \in Users \cup {UnknownEmail}

\* Mutant: an invalid email skipped instead of collected.
InvalidRowSkipped(acc) == acc

\* invalidEmails = append(invalidEmails, email)
InvalidRow(acc) == [acc EXCEPT !.invalid = @ + 1]

\* The loop over records, row k of the file (Go's i = k - 1).
ParseRow(acc, k) ==
    CASE csv[k] = EmptyRecord                 -> acc
      [] k = 1 /\ ~ValidEmail(csv[k])      -> acc
      [] ~ValidEmail(csv[k])               -> InvalidRow(acc)
      [] OTHER                             -> [acc EXCEPT !.emails = Append(@, csv[k])]

ParseCSV ==
    /\ pc = "parse"
    /\ LET parsed == FoldLeftDomain(ParseRow, [emails |-> <<>>, invalid |-> 0], csv)
       IN  \/ pc' = "close" /\ result' = "err" /\ UNCHANGED emails    \* os.Open, ReadAll
           \/ IF csv = <<>> \/ parsed.invalid > 0 \/ parsed.emails = <<>>
              THEN pc' = "close" /\ result' = "err" /\ UNCHANGED emails
              ELSE pc' = "confirm" /\ emails' = parsed.emails /\ UNCHANGED result
    /\ UNCHANGED <<action, newPl, ppm, status, toggled, page, pageCount, batch, bi,
                   errList, processed, placementsOf, mappingOf, confirmed, target, csv, ei>>

(***************************************************************************)
(* processUserEmail for emails[ei]: validate it (the --email path only), *)
(* GetByEmail, check the user is active, GetOwnActive, then              *)
(* processProject for each project, returning at the first error.  A    *)
(* database error may end it at any of these calls.  The CSV loop adds   *)
(* the error to errList and goes on; the --email path returns it.        *)
(***************************************************************************)
ProcessEmail ==
    /\ pc = "emails"
    /\ LET e == emails[ei] IN
       \/ /\ errList' = errList + 1
          /\ UNCHANGED <<processed, placementsOf, mappingOf>>
       \/ /\ e \in Users
          /\ status[e] = "active"
          /\ processed' = processed \cup {e}
          /\ \/ /\ SetEntitlements(OwnActive(e))
                /\ UNCHANGED errList
             \/ \E f \in OwnActive(e) : \E done \in SUBSET (OwnActive(e) \ {f}) :
                   /\ SetEntitlements(done)
                   /\ errList' = errList + ProjectErrors({f})
    /\ IF ei < Len(emails)
       THEN ei' = ei + 1 /\ UNCHANGED <<pc, result>>
       ELSE Finish /\ UNCHANGED ei
    /\ UNCHANGED <<action, newPl, ppm, status, toggled, page, pageCount, batch, bi,
                   confirmed, target, csv, emails>>

\* defer func() { err = errs.Combine(err, satDB.Close()) }(): the command's
\* error result is unnamed, so the deferred assignment writes the local err
\* after the return value was taken; a Close error is dropped.
CloseDatabase ==
    /\ pc = "close"
    /\ pc' = "done"
    /\ UNCHANGED <<result, action, newPl, ppm, status, toggled, page, pageCount, batch, bi,
                   errList, processed, placementsOf, mappingOf, confirmed, inputVars>>

-----------------------------------------------------------------------------
\* A user is deactivated or reactivated while the command runs.
ChangeStatus(u) ==
    /\ pc # "done"
    /\ u \notin toggled
    /\ Cardinality(toggled) < MaxChanges
    /\ status' = [status EXCEPT ![u] = IF @ = "active" THEN "inactive" ELSE "active"]
    /\ toggled' = toggled \cup {u}
    /\ UNCHANGED cmdVars

Init ==
    /\ target \in Targets
    /\ csv \in IF target = "csv" THEN CSVFiles ELSE {<<>>}
    /\ emails \in IF target = "email" THEN {<<e>> : e \in EmailArgs} ELSE {<<>>}
    /\ ei = 1
    /\ action \in {"placements", "mapping"}
    /\ newPl \in NewPlacementChoices
    /\ ppm \in MappingChoices
    /\ status = [u \in Users |-> IF u \in InitialActive THEN "active" ELSE "inactive"]
    /\ toggled = {}
    /\ pc = "validate"
    /\ page = 1
    /\ pageCount = 0
    /\ batch = <<>>
    /\ bi = 1
    /\ errList = 0
    /\ processed = {}
    /\ placementsOf = [p \in Projects |-> Nil]
    /\ mappingOf = [p \in Projects |-> Nil]
    /\ result = Nil
    /\ confirmed = FALSE

Next ==
    \/ Validate
    \/ Confirm
    \/ FetchPage
    \/ ProcessUser
    \/ ParseCSV
    \/ ProcessEmail
    \/ CloseDatabase
    \/ \E u \in Users : ChangeStatus(u)

\* The command runs to completion; status changes are not assumed.
Spec == Init /\ [][Next]_vars /\ WF_vars(Validate \/ Confirm \/ FetchPage \/ ProcessUser \/ ParseCSV \/ ProcessEmail \/
                                           CloseDatabase)

-----------------------------------------------------------------------------
(***************************************************************************)
(* A run that returned nil updated every active project of every user it *)
(* reached: errList keeps the errors of every page to the end.            *)
(***************************************************************************)
ErrorsNotLost ==
    (pc = "done" /\ result = "ok") =>
        \A u \in processed : \A p \in OwnActive(u) :
            IF action = "placements" THEN placementsOf[p] # Nil ELSE mappingOf[p] # Nil

(***************************************************************************)
(* The command terminates: the page number grows until a page is empty  *)
(* or the last one, however statuses change meanwhile.                    *)
(***************************************************************************)
Terminates == <>(pc = "done")

(***************************************************************************)
(* "Process ALL active projects of ALL active users": a run that returned*)
(* nil after the operator confirmed reached every user that was active   *)
(* from start to end.                                                     *)
(***************************************************************************)
AllActiveUpdated ==
    (pc = "done" /\ result = "ok" /\ confirmed) =>
        InitialActive \ toggled \subseteq processed

(***************************************************************************)
(* The mapping set from a partner's placement->product map entitles each *)
(* of its placements under its product.                                   *)
(***************************************************************************)
PlacementsPreserved ==
    \A p \in Projects :
        (mappingOf[p] # Nil /\ ppm = Nil) =>
            LET mapping == PartnerMapping(p.partner)
            IN  \A pl \in DOMAIN mapping : pl \in mappingOf[p][mapping[pl]]

(***************************************************************************)
(* processCSVFile: a run that returned nil after the operator confirmed  *)
(* reached every user the file lists.  Only an empty record and a first  *)
(* row that is not an email (taken for a header) are skipped; an invalid *)
(* email, an unknown one or a user no longer active fails the command.   *)
(***************************************************************************)
CSVAllApplied ==
    (pc = "done" /\ result = "ok" /\ target = "csv" /\ confirmed) =>
        \A k \in DOMAIN csv :
            \/ csv[k] = EmptyRecord
            \/ k = 1 /\ ~ValidEmail(csv[k])
            \/ csv[k] \in processed

=============================================================================
