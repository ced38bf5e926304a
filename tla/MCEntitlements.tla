--------------------------- MODULE MCEntitlements ---------------------------
EXTENDS Entitlements

CONSTANTS P1, P2, UE, IE, ER, BJ

\* One project per user: a default-placement project of partner P1, a
\* project pinned to placement 12 of partner P2 (no mapping of its own), and
\* a default-placement project without partner.
MCProjects ==
    { [owner |-> 1, active |-> TRUE, placement |-> 0,  partner |-> P1],
      [owner |-> 2, active |-> TRUE, placement |-> 12, partner |-> P2],
      [owner |-> 3, active |-> TRUE, placement |-> 0,  partner |-> NoPartner] }

MCAllowed == {0, 12}

\* Valid placements, a placement without self-serve details, bad JSON.
MCNewPlacementChoices == {Nil, {12}, {7}, BJ}

\* A valid mapping, one with an unpriced product, one with a placement
\* without self-serve details, bad JSON.
MCMappingChoices == {Nil, 1 :> {0}, 3 :> {0}, 1 :> {7}, BJ}

MCSelfServe == {0, 12}

MCProducts == {1, 2}

\* The default mapping prices placements 0 and 12 as the same product 1.
MCDefaultPartnerMap ==
    (P1 :> (0 :> 1 @@ 12 :> 2)) @@ (P2 :> Nil) @@ (NoPartner :> (0 :> 1 @@ 12 :> 1))

MCInitialActive == {1, 2, 3}

MCTargets == {"all", "email", "csv", "both"}

\* processAllUsers alone, for the paging and inversion questions.
MCTargetsAll == {"all"}

MCEmailArgs == {1, IE}

\* A header row, a user, an empty record and another user; and a file
\* without header whose second row is not an email.
MCCSVFiles == { <<IE, 1, ER, 3>>, <<2, IE>> }
=============================================================================
