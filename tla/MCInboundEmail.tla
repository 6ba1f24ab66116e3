--------------------------- MODULE MCInboundEmail ----------------------------
(* Small instances of InboundEmail for TLC.                                 *)
EXTENDS InboundEmail

CONSTANTS Documents, DocumentsAgain, InTheirName, TwoFroms, JustAQuestion, NoSender,
          Elsewhere, id1, id2

Borrower == [domain |-> "home.example", borrower |-> TRUE]
Verdict(dmarc, domain) == AuthenticationResults("cloudflare", dmarc, domain)
From == OtherHeader("from")

(* Documents sent from a phone.                                              *)
Phone ==
  [messageId |-> id1, to |-> "chase", from |-> Borrower,
   verdict |-> Verdict("pass", "home.example"), headers |-> <<From>>,
   parts |-> {"inline", "related"}]

(* The same again from another program, without a Message-ID; mail in the    *)
(* borrower's name that fails DMARC, with a verdict of its own; two From     *)
(* headers; a reply without attachments; no From; not a reply to a Chase.    *)
MCMail(m) ==
  CASE m = Documents -> Phone
    [] m = DocumentsAgain ->
         [Phone EXCEPT !.messageId = NoMessageId, !.parts = {"attached"},
            !.headers = <<OtherHeader("subject"), From, Verdict("fail", "other.example")>>]
    [] m = InTheirName ->
         [Phone EXCEPT !.messageId = id2, !.verdict = Verdict("fail", "home.example"),
            !.headers = <<Verdict("pass", "home.example"), From>>]
    [] m = TwoFroms -> [Phone EXCEPT !.messageId = id2, !.headers = <<From, From>>]
    [] m = JustAQuestion -> [Phone EXCEPT !.messageId = id2, !.parts = {"related"}]
    [] m = NoSender -> [Phone EXCEPT !.from = NoAddress, !.headers = << >>]
    [] m = Elsewhere -> [Phone EXCEPT !.to = "other"]

MCReplies ==
  [messageId : Messages \union {id1, id2},
   dmarc : {"pass", "fail", "none", "unknown"},
   fromBorrower : BOOLEAN, attachments : BOOLEAN]
==============================================================================
