------------------------------- MODULE Noffer --------------------------------
(***************************************************************************)
(* A static offer and those who pay it: the offer service                  *)
(* (clink/offers.ts), which mints the code from the first outbox relay,    *)
(* listens on the relay frozen into it and answers with invoices, and the  *)
(* one-shot request of a payer (clink/send.ts, /send in web/server.ts).    *)
(*                                                                         *)
(* A request is a pair of a page and its attempt. Relays come and go, the  *)
(* outbox drifts, the operator regenerates the code, and the process dies  *)
(* and comes back, with the same account or, after a setup that was rolled *)
(* back, with another. Redelivery of requests is module NostrFeed's        *)
(* subject, the payment of an invoice and its receipt module Receive's.    *)
(*                                                                         *)
(* Left out: encryption, descriptions, zap requests (they only add columns *)
(* to the receipt row) and the choice of the rail.                         *)
(***************************************************************************)
EXTENDS Naturals, FiniteSets

CONSTANTS
    Pages,        \* the payers' /send pages
    OfferRelays,
    OfferKeys,    \* account keys of the service
    Elsewhere,    \* the key of an offer of somebody else
    Nowhere,      \* no relay
    MaxDeaths

ASSUME NofferAssumption == Elsewhere \notin OfferKeys /\ Nowhere \notin OfferRelays /\ MaxDeaths \in Nat

Codes    == [relay : OfferRelays, key : OfferKeys]
Foreign  == [relay : OfferRelays, key : {Elsewhere}]
NoCode   == [relay |-> Nowhere, key |-> Elsewhere]
Attempts == Pages \X (1..2)
Contents == {"good", "invalid", "foreign"}

VARIABLES
    alive, account,
    stored,       \* the clink_offer row
    serving,      \* state.relay of the service
    sub,          \* the relay of its subscription
    outbox,       \* the first outbox relay
    shown,        \* the codes the dashboard has shown
    page,         \* what a payer's page is doing
    wire,         \* requests on the relays
    handler,      \* handleOfferRequest of a request: where it is and its ctx.relay
    receipt,      \* the relay of the receipt row of the invoice made for a request
    answers,      \* responses on the relays
    open,         \* relays that take a publish
    deaths

offerVars == <<alive, account, stored, serving, sub, outbox, shown, page, wire, handler, receipt, answers, open, deaths>>

service == <<alive, account, stored, serving, sub, shown, deaths>>

Resting == [at |-> "none", relay |-> Nowhere]

NofferTypeOK ==
    /\ alive \in BOOLEAN /\ account \in OfferKeys /\ deaths \in 0..MaxDeaths
    /\ stored \in Codes \cup {NoCode} /\ shown \subseteq Codes
    /\ {serving, sub} \subseteq OfferRelays \cup {Nowhere} /\ outbox \in OfferRelays
    /\ page \in [Pages -> [at : {"idle", "waiting", "bolt11", "error", "timeout", "decode"},
                           n : 1..2, code : Codes \cup Foreign \cup {NoCode}]]
    /\ wire \subseteq [id : Attempts, code : Codes, content : Contents]
    /\ handler \in [Attempts -> [at : {"none", "issue", "invoice", "refuse", "done"},
                                 relay : OfferRelays \cup {Nowhere}]]
    /\ receipt \in [Attempts -> OfferRelays \cup {Nowhere}]
    /\ answers \subseteq [id : Attempts, relay : OfferRelays, body : {"bolt11", "error"}]
    /\ open \subseteq OfferRelays

NofferInit ==
    /\ alive = FALSE /\ account \in OfferKeys /\ deaths = 0
    /\ stored = NoCode /\ serving = Nowhere /\ sub = Nowhere /\ shown = {}
    /\ outbox \in OfferRelays /\ open = OfferRelays
    /\ page = [p \in Pages |-> [at |-> "idle", n |-> 1, code |-> NoCode]]
    /\ wire = {} /\ answers = {}
    /\ handler = [e \in Attempts |-> Resting] /\ receipt = [e \in Attempts |-> Nowhere]

-----------------------------------------------------------------------------
\* The service.

\* mint and saveNoffer: the code on the first outbox relay, listened on at once.
serve(code) ==
    /\ stored' = code /\ serving' = code.relay /\ sub' = code.relay
    /\ shown' = shown \cup {code}

\* startOfferService: the stored code if it was made with this key, else a new one.
startOfferService(k) ==
    /\ ~alive /\ alive' = TRUE /\ account' = k
    /\ serve(IF stored.key = k THEN stored ELSE [relay |-> outbox, key |-> k])
    /\ UNCHANGED <<outbox, page, wire, handler, receipt, answers, open, deaths>>

\* The Regenerate button.
regenerate ==
    /\ alive
    /\ serve([relay |-> outbox, key |-> account])
    /\ UNCHANGED <<alive, account, outbox, page, wire, handler, receipt, answers, open, deaths>>

\* handleOfferRequest up to its first await: the relay of the moment goes into
\* ctx. An event with an e tag, another version or that cannot be read is dropped,
\* a wrong offer or amount is refused.
handleOfferRequest(r) ==
    /\ sub = r.code.relay /\ account = r.code.key
    /\ handler[r.id].at = "none"
    /\ handler' = [handler EXCEPT ![r.id] =
         [relay |-> serving, at |-> CASE r.content = "good"    -> "issue"
                                      [] r.content = "invalid" -> "refuse"
                                      [] OTHER                 -> "done"]]
    /\ UNCHANGED <<service, outbox, page, wire, receipt, answers, open>>

\* Mutant: the receipt row is left to the code after the response.
IssuedUnrecorded(e) ==
    /\ handler[e].at = "issue"
    /\ handler' = [handler EXCEPT ![e].at = "invoice"]
    /\ UNCHANGED <<service, outbox, page, wire, receipt, answers, open>>

\* issueInvoice returned: the receipt row is there before the response goes out.
Issued(e) ==
    /\ handler[e].at = "issue"
    /\ handler' = [handler EXCEPT ![e].at = "invoice"]
    /\ receipt' = [receipt EXCEPT ![e] = handler[e].relay]
    /\ UNCHANGED <<service, outbox, page, wire, answers, open>>

\* issueInvoice threw: boltz refused the amount, or a temporary failure.
NotIssued(e) ==
    /\ handler[e].at = "issue"
    /\ handler' = [handler EXCEPT ![e].at = "refuse"]
    /\ UNCHANGED <<service, outbox, page, wire, receipt, answers, open>>

\* The relay of the request.
respondTo(e) == handler[e].relay

\* respond: best effort, once.
respond(e) ==
    /\ handler[e].at \in {"invoice", "refuse"}
    /\ handler' = [handler EXCEPT ![e].at = "done"]
    /\ answers' = IF respondTo(e) \in open
                  THEN answers \cup {[id |-> e, relay |-> respondTo(e),
                                      body |-> IF handler[e].at = "invoice" THEN "bolt11" ELSE "error"]}
                  ELSE answers
    /\ UNCHANGED <<service, outbox, page, wire, receipt, open>>

\* stop, or the process dies with its handlers.
ServiceDies ==
    /\ alive /\ deaths < MaxDeaths
    /\ alive' = FALSE /\ sub' = Nowhere /\ deaths' = deaths + 1
    /\ handler' = [e \in Attempts |-> IF handler[e].at = "none" THEN Resting ELSE [handler[e] EXCEPT !.at = "done"]]
    /\ UNCHANGED <<account, stored, serving, outbox, shown, page, wire, receipt, answers, open>>

-----------------------------------------------------------------------------
\* The payer's page.

goto(p, at) ==
    /\ page' = [page EXCEPT ![p].at = at]
    /\ UNCHANGED <<service, outbox, wire, handler, receipt, answers, open>>

\* /send with a noffer: one that does not decode or names an unsafe relay ends here.
requestNofferInvoice(p, code) ==
    /\ page[p].at = "idle"
    /\ page' = [page EXCEPT ![p] = [at |-> IF code = NoCode THEN "decode" ELSE "waiting", n |-> 1, code |-> code]]
    /\ UNCHANGED <<service, outbox, wire, handler, receipt, answers, open>>

\* The request gets to the relay.
Publishes(p, content) ==
    /\ page[p].at = "waiting" /\ page[p].code.key # Elsewhere /\ page[p].code.relay \in open
    /\ \A r \in wire : r.id # <<p, page[p].n>>
    /\ wire' = wire \cup {[id |-> <<p, page[p].n>>, code |-> page[p].code, content |-> content]}
    /\ UNCHANGED <<service, outbox, page, handler, receipt, answers, open>>

\* The first answer decides; the subscription was there before the request.
Hears(p) ==
    \E a \in answers :
        /\ page[p].at = "waiting"
        /\ a.id = <<p, page[p].n>> /\ a.relay = page[p].code.relay
        /\ goto(p, a.body)

\* The timer, or the relay rejected the publish.
TimesOut(p) == page[p].at = "waiting" /\ goto(p, "timeout")

\* Another service answers; one that has moved names a code, which is asked once.
OtherAnswers(p, body) ==
    /\ page[p].at = "waiting" /\ page[p].code.key = Elsewhere
    /\ goto(p, body)

OtherMoved(p, latest) ==
    /\ page[p].at = "waiting" /\ page[p].code.key = Elsewhere
    /\ page' = [page EXCEPT ![p] = IF page[p].n = 1 THEN [at |-> "waiting", n |-> 2, code |-> latest]
                                   ELSE [page[p] EXCEPT !.at = "error"]]
    /\ UNCHANGED <<service, outbox, wire, handler, receipt, answers, open>>

-----------------------------------------------------------------------------
OutboxDrifts(r) ==
    /\ outbox' = r
    /\ UNCHANGED <<service, page, wire, handler, receipt, answers, open>>

RelayFlips(r) ==
    /\ open' = IF r \in open THEN open \ {r} ELSE open \cup {r}
    /\ UNCHANGED <<service, outbox, page, wire, handler, receipt, answers>>

NofferNext ==
    \/ \E k \in OfferKeys : startOfferService(k)
    \/ regenerate \/ ServiceDies
    \/ \E r \in wire : handleOfferRequest(r)
    \/ \E e \in Attempts : Issued(e) \/ NotIssued(e) \/ respond(e)
    \/ \E p \in Pages :
          \/ \E code \in shown \cup Foreign \cup {NoCode} : requestNofferInvoice(p, code)
          \/ \E content \in Contents : Publishes(p, content)
          \/ Hears(p) \/ TimesOut(p)
          \/ \E body \in {"bolt11", "error"} : OtherAnswers(p, body)
          \/ \E latest \in shown \cup Foreign : OtherMoved(p, latest)
    \/ \E r \in OfferRelays : OutboxDrifts(r) \/ RelayFlips(r)

NofferSpec == NofferInit /\ [][NofferNext]_offerVars

-----------------------------------------------------------------------------
\* What the dashboard shows is what the service listens for and what a restart
\* would serve; every response goes where its payer listens, however often the
\* code was regenerated in between; and an invoice in a payer's hand has the
\* receipt row the settlement looks for, on the payer's relay, across crashes
\* (clink/offers.ts:174, :288, :325).
OffersAreKept ==
    /\ alive => sub = serving /\ stored = [relay |-> serving, key |-> account]
    /\ \A a \in answers : \E r \in wire : r.id = a.id /\ r.code.relay = a.relay
    /\ \A p \in Pages :
          page[p].at = "bolt11" /\ page[p].code.key # Elsewhere
              => receipt[<<p, page[p].n>>] = page[p].code.relay
=============================================================================
