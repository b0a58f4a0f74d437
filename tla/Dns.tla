---------------------------------- MODULE Dns ----------------------------------
(***************************************************************************)
(* The network names of the game (hooklib/dns.c): a table of rules sends a *)
(* name to another host or says that there is no such host, and ports and  *)
(* the Host field of requests are rewritten.                               *)
(*                                                                         *)
(* The table is walked under a lock.  A name and a pattern are sequences   *)
(* of characters; a request is the text in front of its Host field, the    *)
(* host, and the text behind it.                                           *)
(***************************************************************************)
EXTENDS Integers, Sequences, FiniteSets, SequencesExt

CONSTANTS
  DnsNames,         (* names the game looks up                             *)
  DnsPatterns,      (* patterns that are pushed                            *)
  DnsHosts,         (* hosts they are sent to                              *)
  DnsThreads,       (* threads of the game                                 *)
  DnsPorts,         (* the ports set, by port: 0 for none                  *)
  DnsGoodSockets,   (* whether the game connects none but its own sockets  *)
  DnsMaxRules       (* bound: rules                                        *)

ASSUME DnsAssumption ==
  /\ DnsMaxRules \in Nat
  /\ \A s \in DnsNames \cup DnsPatterns : s \in Seq(ToSet(s))
  /\ \A port \in DOMAIN DnsPorts : port \in Nat \ {0} /\ DnsPorts[port] \in Nat

DnsStar == "*"
DnsNone == <<>>

(* rules: dns_hook_entries, each a pattern and a host or DnsNone; lock:    *)
(* who is inside; pc, name, at: the threads, each with the name it was     *)
(* given, and where its walk is; found: what the call went on with; port:  *)
(* the last connect of each thread, asked and made; sent: the last request,*)
(* asked and sent                                                          *)
VARIABLE dns

DnsInit ==
  dns = [rules |-> <<>>, lock |-> DnsNone, pc |-> [t \in DnsThreads |-> "idle"],
         name |-> [t \in DnsThreads |-> DnsNone], found |-> [t \in DnsThreads |-> DnsNone],
         port |-> [t \in DnsThreads |-> <<0, 0>>],
         sent |-> <<<<DnsNone, DnsNone, DnsNone>>, <<DnsNone, DnsNone, DnsNone>>>>]

-----------------------------------------------------------------------------
(* match_domain, from place p of the pattern and q of the name on.  A star *)
(* goes to the next place that has the character behind it, and does not   *)
(* come back.                                                              *)
DnsAt(s, i) == IF i <= Len(s) THEN s[i] ELSE "end"

DnsGoesOn(s, c, q) ==
  LET places == {i \in q..Len(s) : s[i] = c}
  IN  IF places = {} THEN 0 ELSE CHOOSE i \in places : \A j \in places : i <= j

(* Broken: the end of the name is not looked at.                           *)
DnsMatchPrefix(target, pattern) ==
  LET from[p \in 1..Len(pattern) + 1, q \in 1..Len(target) + 1] ==
        IF p > Len(pattern) \/ q > Len(target) THEN p > Len(pattern)
        ELSE IF pattern[p] = DnsStar
        THEN LET r == DnsGoesOn(target, DnsAt(pattern, p + 1), q)
             IN  r # 0 /\ from[p + 1, r]
        ELSE pattern[p] = target[q] /\ from[p + 1, q + 1]
  IN  pattern = target \/ from[1, 1]

DnsMatches(target, pattern) ==
  LET from[p \in 1..Len(pattern) + 1] ==
        [q \in 1..Len(target) + 1 |->
           IF p > Len(pattern) \/ q > Len(target)
           THEN p > Len(pattern) /\ q > Len(target)
           ELSE IF pattern[p] = DnsStar
           THEN LET r == DnsGoesOn(target, DnsAt(pattern, p + 1), q)
                IN  r # 0 /\ from[p + 1][r]
           ELSE pattern[p] = target[q] /\ from[p + 1][q + 1]]
  IN  from

match_domain(target, pattern) == pattern = target \/ DnsMatches(target, pattern)[1][1]

DnsRule(name) ==
  LET hits == {i \in 1..Len(dns.rules) : match_domain(name, dns.rules[i][1])}
  IN  IF hits = {} THEN 0 ELSE CHOOSE i \in hits : \A j \in hits : i <= j

-----------------------------------------------------------------------------
(* dns_hook_push                                                           *)
dns_hook_push(from, to) ==
  /\ dns.lock = DnsNone /\ Len(dns.rules) < DnsMaxRules
  /\ dns' = [dns EXCEPT !.rules = Append(@, <<from, to>>)]

(* DnsQuery_A, _W, DnsQueryEx, getaddrinfo, GetAddrInfoW, GetAddrInfoExA,  *)
(* GetAddrInfoExW, WinHttpConnect: the first rule that matches, once; the  *)
(* call goes on after the lock is left.  DnsQueryEx changes the caller's   *)
(* request for as long as the call takes.                                  *)
hook_DnsQueryEx(t, name) ==
  LET i == DnsRule(name)
  IN  /\ dns.pc[t] = "idle" /\ dns.lock \in {DnsNone, <<t>>}
      /\ dns' = [dns EXCEPT !.pc[t] = "call", !.name[t] = name,
           !.found[t] = IF i = 0 THEN name ELSE dns.rules[i][2]]

DnsReturns(t) ==
  /\ dns.pc[t] = "call"
  /\ dns' = [dns EXCEPT !.pc[t] = "idle", !.name[t] = DnsNone, !.found[t] = DnsNone]

(* Broken: a port that is not set is connected as 0.                       *)
DnsConnectsUnset(t, port) ==
  /\ dns.pc[t] = "idle" /\ dns.lock \in {DnsNone, <<t>>}
  /\ dns' = [dns EXCEPT !.port[t] =
       <<port, IF port \in DOMAIN DnsPorts THEN DnsPorts[port] ELSE port>>]

(* hook_connect: a port of a server is another one, when that is set.  The *)
(* port of what is not a socket cannot be read, and the lock is not left.  *)
hook_connect(t, port) ==
  /\ dns.pc[t] = "idle" /\ dns.lock \in {DnsNone, <<t>>}
  /\ \/ dns' = [dns EXCEPT !.port[t] =
          <<port, IF port \in DOMAIN DnsPorts /\ DnsPorts[port] # 0 THEN DnsPorts[port]
                  ELSE port>>]
     \/ ~DnsGoodSockets /\ dns' = [dns EXCEPT !.lock = <<t>>]

(* hook_send, without the lock: the new field is printed over the old one, *)
(* and the text ends where it does.                                        *)
hook_send(before, host, behind) ==
  LET hits == {i \in 1..Len(dns.rules) : dns.rules[i][1] = host}
      first == CHOOSE i \in hits : \A j \in hits : i <= j
  IN  /\ \A i \in hits : dns.rules[i][2] # DnsNone
      /\ dns' = [dns EXCEPT !.sent = <<<<before, host, behind>>,
           IF hits = {} THEN <<before, host, behind>>
           ELSE <<before, dns.rules[first][2], DnsNone>>>>]

DnsNext ==
  \/ \E from \in DnsPatterns, to \in DnsHosts \cup {DnsNone} : dns_hook_push(from, to)
  \/ \E t \in DnsThreads :
       \/ DnsReturns(t)
       \/ \E name \in DnsNames : hook_DnsQueryEx(t, name)
       \/ \E port \in DOMAIN DnsPorts \cup {1} : hook_connect(t, port)
  \/ \E host \in DnsNames : hook_send(<<"POST">>, host, <<"body">>)

DnsSpec == DnsInit /\ [][DnsNext]_dns

-----------------------------------------------------------------------------
(* Properties.                                                             *)

DnsTypeOK ==
  /\ Len(dns.rules) <= DnsMaxRules
  /\ dns.lock = DnsNone \/ \E t \in DnsThreads : dns.lock = <<t>>
  /\ \A t \in DnsThreads : dns.port[t][2] \in Nat \ {0} \/ dns.port[t] = <<0, 0>>

(* What a pattern means: a star is any characters.                         *)
DnsMeant(target, pattern) ==
  LET from[p \in 1..Len(pattern) + 1] ==
        [q \in 1..Len(target) + 1 |->
           IF p > Len(pattern) THEN q > Len(target)
           ELSE IF pattern[p] = DnsStar
           THEN \E r \in q..Len(target) + 1 : from[p + 1][r]
           ELSE q <= Len(target) /\ pattern[p] = target[q] /\ from[p + 1][q + 1]]
  IN  from

DnsGlob(target, pattern) == DnsMeant(target, pattern)[1][1]

(* A name that leaves the game's network for another host, or is said not  *)
(* to exist, is one that some pattern means, and the name that is asked    *)
(* for is never one that the first such rule forbids: whatever rules were  *)
(* pushed while other threads had calls out.                               *)
DnsOnlyWhatIsMeant ==
  \A t \in DnsThreads :
    dns.pc[t] = "call" /\ dns.found[t] # dns.name[t] =>
      \E i \in 1..Len(dns.rules) : /\ DnsGlob(dns.name[t], dns.rules[i][1])
                                   /\ dns.found[t] = dns.rules[i][2]

(* The names as a whole: the lock is free outside of a call, and a name    *)
(* becomes another only by a rule that means it.                           *)
DnsIsRight ==
  /\ DnsTypeOK
  /\ DnsOnlyWhatIsMeant

=============================================================================
