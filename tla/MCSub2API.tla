----------------------------- MODULE MCSub2API -----------------------------
EXTENDS Sub2API, TLC

NoText == {}

AnyTarget == [type |-> NoText, id |-> NoText, name |-> NoText, match |-> NoText,
              email |-> NoText, usage |-> FALSE]

User1 == [id |-> {"u1"}, email |-> {"ann", "@"}]
User2 == [id |-> {"u2"}, email |-> {"ann", "@", "b"}]

AccountOf(id, name, email, five, week) ==
  [id |-> id, name |-> name, email |-> email, enabled |-> TRUE, usage |-> FALSE,
   five |-> five, week |-> week]

A1 == AccountOf({"1"}, {"pro", "20x"}, {"ann", "@"}, 55, 100)
A2 == AccountOf({"2"}, {"pro", "20x"}, {"bob", "@"}, 100, 0)
A3 == AccountOf({"3"}, {"ann", "@"}, NoText, 0, 5)
Off == [A2 EXCEPT !.enabled = FALSE]

UserTarget    == [AnyTarget EXCEPT !.email = User1.email]
EmailIdTarget == [AnyTarget EXCEPT !.type = {"user"}, !.id = User1.email]
MatchTarget   == [AnyTarget EXCEPT !.match = {"20x"}, !.usage = TRUE]
IdTarget      == [AnyTarget EXCEPT !.type = {"gpt"}, !.id = {"1"}, !.usage = TRUE]

Basic == [targets |-> <<>>, accounts |-> <<A1>>, users |-> <<User1, User2>>,
          windows |-> <<>>, balance |-> <<[window |-> "balance", left |-> 3]>>,
          endpoints |-> {"user_platform_quotas", "user_detail"},
          traffic |-> {<<{"u1"}, "codex">>, <<{"1"}, "codex">>},
          emails |-> <<{"ann", "@"}, {"bob", "@"}, {"ann", "@"}>>]

\* Every account; a user; a user and accounts, without an endpoint for the quota; two
\* targets that match one account.
Every    == [Basic EXCEPT !.accounts = <<A1, A3, Off>>,
                          !.traffic = {<<{"3"}, "codex">>}]
OneUser  == [Basic EXCEPT !.targets = <<UserTarget>>, !.accounts = <<A3, A2>>,
                          !.windows = <<[window |-> "weekly", left |-> 7]>>,
                          !.traffic = {<<{"u1"}, "codex">>, <<{"u1"}, "deepseek">>}]
Mixed    == [Basic EXCEPT !.targets = <<EmailIdTarget, MatchTarget>>,
                          !.windows = <<[window |-> "weekly", left |-> 7]>>,
                          !.endpoints = {"user_detail"}]
Matching == [Basic EXCEPT !.targets = <<MatchTarget, IdTarget>>, !.accounts = <<A1, A2>>,
                          !.traffic = {<<{"1"}, "codex">>}]

\* Two targets that name one user.
Twice    == [Basic EXCEPT !.targets = <<UserTarget, EmailIdTarget>>, !.accounts = <<>>,
                          !.traffic = {<<{"u1"}, "codex">>}]

FiveHours == <<20, 21, 59, 60, 75, 95>>
Weeks     == <<0, 10, 11, 60, 75, 95>>

\* Accounts at every threshold of both windows, without usage.
Graded == [Basic EXCEPT
             !.targets = <<[AnyTarget EXCEPT !.match = {"20x"}]>>, !.traffic = {},
             !.accounts = [n \in 1..36 |->
                LET five == FiveHours[1 + ((n - 1) \div 6)]
                    week == Weeks[1 + ((n - 1) % 6)]
                IN  AccountOf({ToString(n)}, {"20x", ToString(n)}, NoText, five, week)]]

AllSetups == {Every, OneUser, Mixed, Matching, Twice, Graded}
=============================================================================
