------------------------------- MODULE MCSync -------------------------------
EXTENDS MCOptimistic
Matching == {"open", "pending", "claims", "claim", "sawclaims", "sawpending", "undo", "rollback",
             "commit", "consume", "token", "body", "again", "againclaims"}
Led(t) == pc[t] \in Matching => list[t].used # << >> /\ list[t].used[1] = Goal(t)
SyncInv(t) ==
  /\ \A i \in DOMAIN calls[t] : calls[t][i].con \in SyncOnly => calls[t][i].op = "sync"
  /\ pc[t] \in {"ready", "enqueue", "check"} => job[t].op # "sync"
  /\ pc[t] = "allocate" => Goal(t) = None /\ job[t].op = Head(calls[t]).op
  /\ Goal(t) # None /\ con[Goal(t)] \in SyncOnly => job[t].op = "sync"
  /\ Led(t)
  /\ pc[t] = "token" => cur[t].at > 1
SyncStore ==
  /\ \A s \in Status \ Known : tokens[s] = 0
  /\ \A s \in Known : con[s] \in SyncOnly => mod[s] = "SYNC"
  /\ \A i \in DOMAIN tasks : con[tasks[i].goal] \notin SyncOnly
Rooted(t) == pc[t] \in {"open", "pending", "claims"} =>
  \A i \in DOMAIN cur[t].stack : con[cur[t].stack[i].s] # con[Goal(t)]
SInv == SyncStore /\ \A t \in Thread : SyncInv(t) /\ Rooted(t)
==============================================================================
