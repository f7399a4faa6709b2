------------------------------- MODULE TokenTable -------------------------------
(***************************************************************************)
(* The tokens of the application gateway (auth.py, the requests of         *)
(* server.py, the page's functions): a login issues an access token and a  *)
(* refresh token, a refresh trades the refresh token for another pair, a   *)
(* logout revokes both.  A handler runs without interruption in the event  *)
(* loop, in several transactions, and the process may die between them.    *)
(* The browser's tabs share the cookie with the refresh token; each keeps  *)
(* its own access token, and asks for a refresh when a chat is refused.    *)
(***************************************************************************)
EXTENDS Integers

CONSTANTS Tabs, NoTab,
          MaxPairs,  \* bound on the pairs issued
          MaxKeys    \* bound on the signing keys

VARIABLES row,      \* table tokens, by pair; nothing reads its column replaced_by
          server,   \* the handler under way
          pem, marker, active,  \* key files, the file active-kid, active_kid
          signed,   \* the key of each pair's tokens
          cookie, bearer,       \* in the browser; 0: none
          wire,     \* by tab: its request, or the answer to it
          root,     \* the login a pair goes back to (history)
          mishap    \* an answer was lost, the process died, a token expired (history)

keys == <<pem, marker, active>>
browser == <<cookie, bearer>>
vars == <<row, server, keys, signed, browser, wire, root, mishap>>

Pairs == 1..MaxPairs
Kids == 1..MaxKeys
NoRow == [access |-> "none", refresh |-> "none"]
Waiting == [at |-> "idle", tab |-> NoTab, pair |-> 0, old |-> 0]
Quiet == [op |-> "none", cookie |-> 0, bearer |-> 0]

Init == /\ row = [p \in Pairs |-> NoRow]
        /\ server = Waiting
        /\ pem = [k \in Kids |-> IF k = 1 THEN "whole" ELSE "none"] /\ marker = 1 /\ active = 1
        /\ signed = [p \in Pairs |-> 0]
        /\ cookie = 0 /\ bearer = [t \in Tabs |-> 0]
        /\ wire = [t \in Tabs |-> Quiet]
        /\ root = [p \in Pairs |-> 0]
        /\ mishap = FALSE

(* The page. *)
\* With what the handler looks at.
Request(op, t) == [op |-> op, cookie |-> IF op \in {"refresh", "logout"} THEN cookie ELSE 0,
                   bearer |-> IF op \in {"chat", "logout"} THEN bearer[t] ELSE 0]
Click(t) ==
  /\ wire[t] = Quiet
  /\ \E op \in {"login", "logout", "chat"}:
       /\ op # "login" => cookie # 0 \/ bearer[t] # 0
       /\ wire' = [wire EXCEPT ![t] = Request(op, t)]
  /\ UNCHANGED <<row, server, keys, signed, browser, root, mishap>>

\* An answer that changes nothing in the browser is not on its way.
Answer(t, op, pair) == wire' = [wire EXCEPT ![t] = [op |-> op, cookie |-> pair, bearer |-> pair]]

\* An answer arrives: the cookie is set or deleted for all tabs.
Receive(t) ==
  /\ wire[t].op \in {"pair", "gone", "unauthorized"}
  /\ cookie' = IF wire[t].op \in {"pair", "gone"} THEN wire[t].cookie ELSE cookie
  /\ bearer' = IF wire[t].op \in {"pair", "gone"} THEN [bearer EXCEPT ![t] = wire[t].bearer] ELSE bearer
  \* A chat that is refused is tried again after a refresh.
  /\ wire' = [wire EXCEPT ![t] = IF wire[t].op = "unauthorized" /\ cookie # 0 THEN Request("refresh", t) ELSE Quiet]
  /\ UNCHANGED <<row, server, keys, signed, root, mishap>>

Lose(t) ==
  /\ wire[t].op \in {"pair", "gone"}
  /\ wire' = [wire EXCEPT ![t] = Quiet]
  /\ mishap' = TRUE
  /\ UNCHANGED <<row, server, keys, signed, browser, root>>

(* The handlers. *)
Free(t, op) == server = Waiting /\ wire[t].op = op
Known(p) == p # 0 /\ pem[signed[p]] = "whole"
Usable(p, type) == Known(p) /\ row[p][type] = "live"
Fresh == CHOOSE p \in Pairs: row[p] = NoRow
Room == \E p \in Pairs: row[p] = NoRow
Revoked(p, type) == [row EXCEPT ![p][type] = "over"]

\* issue_pair: two transactions; what is signed is signed after them.
Issue(t, old) == server' = [at |-> "access", tab |-> t, pair |-> Fresh, old |-> old]
Login(t) ==
  /\ Free(t, "login") /\ Room
  /\ Issue(t, 0)
  /\ UNCHANGED <<row, keys, signed, browser, wire, root, mishap>>

Refresh(t) ==
  /\ Free(t, "refresh")
  /\ IF Usable(wire[t].cookie, "refresh")
       THEN Room /\ Issue(t, wire[t].cookie) /\ row' = Revoked(wire[t].cookie, "refresh") /\ UNCHANGED wire
       ELSE wire' = [wire EXCEPT ![t] = Quiet] /\ UNCHANGED <<row, server>>
  /\ UNCHANGED <<keys, signed, browser, root, mishap>>

RecordAccess ==
  /\ server.at = "access"
  /\ row' = [row EXCEPT ![server.pair].access = "live"]
  /\ server' = [server EXCEPT !.at = "refresh"]
  /\ UNCHANGED <<keys, signed, browser, wire, root, mishap>>
RecordRefresh ==
  /\ server.at = "refresh"
  /\ row' = [row EXCEPT ![server.pair].refresh = "live"]
  /\ signed' = [signed EXCEPT ![server.pair] = active]
  /\ root' = [root EXCEPT ![server.pair] = IF server.old = 0 THEN server.pair ELSE root[server.old]]
  /\ server' = [server EXCEPT !.at = "issued"]
  /\ UNCHANGED <<keys, browser, wire, mishap>>
Issued ==
  /\ server.at = "issued"
  /\ Answer(server.tab, "pair", server.pair)
  /\ server' = Waiting
  /\ UNCHANGED <<row, keys, signed, browser, root, mishap>>

\* Each token that is still good is revoked in a transaction of its own.
LogoutRefresh(t) ==
  /\ Free(t, "logout")
  /\ row' = IF Usable(wire[t].cookie, "refresh") THEN Revoked(wire[t].cookie, "refresh") ELSE row
  /\ server' = [Waiting EXCEPT !.at = "logout", !.tab = t]
  /\ UNCHANGED <<keys, signed, browser, wire, root, mishap>>
LogoutAccess == LET t == server.tab IN
  /\ server.at = "logout"
  /\ row' = IF Usable(wire[t].bearer, "access") THEN Revoked(wire[t].bearer, "access") ELSE row
  /\ Answer(t, "gone", 0)
  /\ server' = Waiting
  /\ UNCHANGED <<keys, signed, browser, root, mishap>>

Chat(t) ==
  /\ Free(t, "chat")
  /\ IF Usable(wire[t].bearer, "access") THEN wire' = [wire EXCEPT ![t] = Quiet] ELSE Answer(t, "unauthorized", 0)
  /\ UNCHANGED <<row, server, keys, signed, browser, root, mishap>>

(* rotate_key, on an administrator's request or at the start without a key: the key file, *)
(* then the marker, each of them written over.                                            *)
NewKid == CHOOSE k \in Kids: pem[k] = "none"
KeyRoom == \E k \in Kids: pem[k] = "none"
WriteKey ==
  /\ server = Waiting /\ KeyRoom
  \* It waits for the handlers before it, and they see the key only when they sign.
  /\ \A t \in Tabs: wire[t] = Quiet
  /\ pem' = [pem EXCEPT ![NewKid] = "torn"]
  /\ server' = [Waiting EXCEPT !.at = "key", !.pair = NewKid]
  /\ UNCHANGED <<row, marker, active, signed, browser, wire, root, mishap>>
KeyWritten ==
  /\ server.at = "key"
  /\ pem' = [pem EXCEPT ![server.pair] = "whole"]
  /\ marker' = 0
  /\ server' = [server EXCEPT !.at = "marker"]
  /\ UNCHANGED <<row, active, signed, browser, wire, root, mishap>>
MarkKey ==
  /\ server.at = "marker"
  /\ marker' = server.pair
  /\ active' = server.pair
  /\ server' = Waiting
  /\ UNCHANGED <<row, pem, signed, browser, wire, root, mishap>>

\* The process dies and starts again (_ensure_active_key): requests to it fail.
Marked == marker # 0 /\ pem[marker] # "none"
Crash ==
  /\ server # Waiting
  /\ Marked \/ KeyRoom
  /\ IF Marked THEN active' = marker /\ UNCHANGED <<pem, marker>>
     ELSE pem' = [pem EXCEPT ![NewKid] = "whole"] /\ marker' = NewKid /\ active' = NewKid
  /\ server' = Waiting
  /\ wire' = [t \in Tabs |-> Quiet]
  /\ mishap' = TRUE
  /\ UNCHANGED <<row, signed, browser, root>>

\* 300 seconds for an access token, 1800 for a refresh token.
Expired(type) == [p \in Pairs |-> IF row[p][type] = "live" THEN [row[p] EXCEPT ![type] = "over"] ELSE row[p]]
Expire == \E type \in {"access", "refresh"}:
  /\ server = Waiting
  /\ type = "refresh" => \A p \in Pairs: row[p].access # "live"
  /\ row' = Expired(type) /\ row' # row
  /\ mishap' = (mishap \/ type = "refresh")
  /\ UNCHANGED <<server, keys, signed, browser, wire, root>>

Handle(t) == Login(t) \/ Refresh(t) \/ LogoutRefresh(t) \/ Chat(t)
Server == RecordAccess \/ RecordRefresh \/ Issued \/ LogoutAccess \/ WriteKey \/ KeyWritten \/ MarkKey
Next == (\E t \in Tabs: Click(t) \/ Receive(t) \/ Lose(t) \/ Handle(t)) \/ Server \/ Crash \/ Expire
Spec == Init /\ [][Next]_vars

States == {"none", "live", "over"}  \* over: revoked or expired
TypeOK == /\ row \in [Pairs -> [access: States, refresh: States]]
          /\ server.at \in {"idle", "access", "refresh", "issued", "logout", "key", "marker"}
          /\ pem \in [Kids -> {"none", "torn", "whole"}] /\ marker \in 0..MaxKeys /\ active \in Kids
          /\ signed \in [Pairs -> 0..MaxKeys] /\ root \in [Pairs -> 0..MaxPairs]
          /\ cookie \in 0..MaxPairs /\ bearer \in [Tabs -> 0..MaxPairs] /\ mishap \in BOOLEAN

\* A login can be carried on by one refresh token at a time, however its refreshes were asked
\* for, lost or cut off.
OneHeir == \A p, q \in Pairs:
             /\ root[p] # 0 /\ root[p] = root[q]
             /\ row[p].refresh = "live" /\ row[q].refresh = "live"
             => p = q
\* Two tabs that refresh with the same cookie, or a refresh and a logout that overlap, leave the
\* browser with a cookie that still works, or none.
CookieWorks == ~mishap /\ (\A t \in Tabs: wire[t] = Quiet) /\ server = Waiting
               => cookie = 0 \/ Usable(cookie, "refresh")
\* Whatever is cut off while a key is changed, the tokens in the browser can be verified and
\* the next ones signed.
KeysVerify == /\ pem[active] = "whole"
              /\ \A p \in {cookie} \cup {bearer[t] : t \in Tabs}: p = 0 \/ Known(p)
TokensHold == OneHeir /\ CookieWorks /\ KeysVerify
=================================================================================
