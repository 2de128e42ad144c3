------------------------ MODULE MCExecutorRegistry ------------------------
(***************************************************************************)
(* A small world of providers: two capabilities of one role, two           *)
(* providers, two accounts that differ only in case, two principals.       *)
(***************************************************************************)
EXTENDS ExecutorRegistry

T(word, style) == [word |-> word, style |-> style]

Role == Plain("role")
MCRoles == {Role}
Cap(word, style, provider) ==
  [identifier |-> T(word, style), role |-> Role, provider |-> Plain(provider)]
Account(style, principal) ==
  [principal |-> principal, account_identifier |-> T("acct", style)]

Offer(kind, caps, executor, account) ==
  [kind |-> kind, capabilities |-> caps, executor |-> executor, account_context |-> account]

MCOffers == {
  Offer("manifest", <<Cap("read", "plain", "p"), Cap("send", "plain", "p")>>, "m1", Absent),
  Offer("manifest", <<Cap("send", "cased", "p"), Cap("read", "plain", "p")>>, "m2",
        Account("plain", Plain("ann"))),
  Offer("manifest", <<Cap("read", "padded", "p")>>, "m3", Account("padded", Plain("bob"))),
  Offer("manifest", <<Cap("read", "plain", "q"), Cap("send", "plain", "q")>>, "m4",
        Account("cased", Absent)),
  Offer("manifest", <<Cap("read", "plain", "q"), Cap("read", "cased", "q")>>, "m5", Absent),
  Offer("manifest", <<Cap("read", "plain", "p"), Cap("send", "plain", "q")>>, "m6", Absent),
  Offer("capabilities", <<Cap("send", "padded", "p"), Cap("read", "cased", "q"),
                          Cap("send", "cased", "q")>>, "c1", Absent),
  Offer("capabilities", <<Cap("send", "plain", "q")>>, "c2", Account("plain", Plain("ann"))),
  Offer("capabilities", <<Cap("read", "plain", "p"), Cap("send", "plain", "q")>>, "c3",
        Account("cased", Plain("ann"))),
  Offer("capabilities", <<Cap("read", "plain", "q")>>, "c4", Account("plain", Absent)),
  Offer("capabilities", <<Cap("send", "plain", "q")>>, "c5", Account("cased", Plain(Blank)))}

Accounts == {Absent, Account("plain", Plain("ann")), Account("padded", Plain("bob")),
             Account("cased", Absent), Account("plain", Absent),
             Account("plain", Plain(Blank))}
Nothing == [capability |-> Absent, capability_provider |-> Absent, account_context |-> Absent]

MCRequests ==
  {[role |-> role, type |-> type, metadata |-> metadata,
    payload |-> [capability |-> capability, capability_provider |-> provider,
                 account_context |-> account]] :
     role \in {Role, T("role", "cased"), Plain(Blank)},
     type \in {Plain("send")},
     metadata \in {Nothing, [Nothing EXCEPT !.capability_provider = T("q", "cased")]},
     capability \in {Absent, T("read", "cased"), Plain(Blank)},
     provider \in {Absent, T("p", "padded"), Plain(Blank)},
     account \in Accounts}
===========================================================================
