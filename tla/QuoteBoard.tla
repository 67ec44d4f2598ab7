----------------------------- MODULE QuoteBoard -----------------------------
(***************************************************************************)
(* What the quotes of one inquiry promise, as a host and a vendor see them *)
(* when the API handles one call at a time: every decision happens at once *)
(* and on the quotes as they stand.  InquiryThread with a single request   *)
(* slot implements this specification; with more slots it does not.        *)
(*                                                                         *)
(* Source: the guards and transactions of postMessage, acceptQuote,        *)
(* rejectQuote, bookQuote, unsendMessage and updateInquiryStatus in        *)
(* src/apps/api/src/inquiries/inquiries.service.ts.                        *)
(***************************************************************************)
CONSTANTS Quotes, NoQuote

VARIABLES status,     \* the inquiry's status
          deal,       \* the quote whose amount the inquiry shows
          standing,   \* where each quote stands
          booked      \* the quotes the host has marked as booked

board == <<status, deal, standing, booked>>

Standings == {"none", "open", "accepted", "rejected", "unsent"}

Open == status \notin {"DECLINED", "CANCELLED"}

\* The host may still decide on quotes.
Deciding == Open /\ status # "BOOKED"

Init ==
    /\ status = "PENDING"
    /\ deal = NoQuote
    /\ standing = [q \in Quotes |-> "none"]
    /\ booked = {}

\* The vendor posts a quote in an open inquiry ...
Offer(q) ==
    /\ Open
    /\ standing[q] = "none"
    /\ standing' = [standing EXCEPT ![q] = "open"]
    /\ UNCHANGED <<status, deal, booked>>

\* ... and its amount becomes the inquiry's, unless the inquiry is booked.
Announce(q) ==
    /\ Deciding
    /\ standing[q] = "open"
    /\ status' = "QUOTED" /\ deal' = q
    /\ UNCHANGED <<standing, booked>>

\* The host accepts q in place of whatever quote was accepted before.
Accept(q) ==
    /\ Deciding
    /\ standing[q] = "open"
    /\ standing' = [p \in Quotes |-> IF p = q THEN "accepted"
                                     ELSE IF standing[p] = "accepted" THEN "open"
                                     ELSE standing[p]]
    /\ deal' = q
    /\ UNCHANGED <<status, booked>>

Reject(q) ==
    /\ Deciding
    /\ standing[q] \in {"open", "accepted"} /\ q \notin booked
    /\ standing' = [standing EXCEPT ![q] = "rejected"]
    /\ UNCHANGED <<status, deal, booked>>

\* Booking needs an accepted quote, and settles the amount.
Book(q) ==
    /\ Deciding
    /\ standing[q] = "accepted"
    /\ status' = "BOOKED" /\ deal' = q
    /\ booked' = booked \cup {q}
    /\ UNCHANGED standing

\* The vendor takes back a quote nobody has decided on.
Unsend(q) ==
    /\ standing[q] = "open" /\ q \notin booked
    /\ standing' = [standing EXCEPT ![q] = "unsent"]
    /\ UNCHANGED <<status, deal, booked>>

\* The vendor accepts or declines the inquiry, whatever its status.
Decide ==
    /\ status' \in {"ACCEPTED", "DECLINED"}
    /\ UNCHANGED <<deal, standing, booked>>

Next ==
    \/ \E q \in Quotes : Offer(q) \/ Announce(q) \/ Accept(q) \/ Reject(q) \/ Book(q) \/ Unsend(q)
    \/ Decide

Spec == Init /\ [][Next]_board
=============================================================================
