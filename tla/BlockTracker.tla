------------------------------ MODULE BlockTracker ------------------------------
(***************************************************************************)
(* How the program learns of a new block: test_work_current, called by the *)
(* rthread of a pool after a clean notify, with a work made for the        *)
(* purpose, and by the main scheduler with every work it stages.  It takes *)
(* swork.clean, looks the work's block up in the database of the last      *)
(* blocks, enters it if it is not there, and makes it the current block.   *)
(* Several threads may be in it at once, each with a work that need not be *)
(* of the pool's job of the moment.  The restart of the mining threads     *)
(* that follows is DeviceTemplates' matter; work_block is left out.        *)
(*                                                                         *)
(* Blocks are numbered by height.  Pools follow the chain with some delay. *)
(***************************************************************************)
EXTENDS Naturals, Sequences, FiniteSets

CONSTANTS
    Pool,
    Scheduler,      \* the main scheduler, a thread like the rthread of each pool
    Keep,           \* blocks the database keeps: 7 in block_exists
    Lag,            \* how many blocks a pool may be behind
    MaxBlock        \* bound on the chain

\* Between the entry of a block and its last work no more than 2 * Lag others are
\* entered: as many older ones and as many newer ones as a pool may be behind.
BlockAssumption ==
    /\ Scheduler \notin Pool
    /\ Keep \in Nat /\ Lag \in Nat /\ 2 * Lag < Keep /\ MaxBlock \in Nat \ {0}

VARIABLES
    chain,          \* the height of the network
    pblock,         \* pblock[p]: the block p's job builds on: prev_hash
    clean,          \* clean[p]: swork.clean
    miningPool,     \* the pool the scheduler makes work for
    blocks,         \* the database, oldest first
    current,        \* current_block, 0 at first
    news,           \* news[b]: how often b was taken for a new block
    pc,             \* pc[t]: where thread t is
    wpool,          \* wpool[t]: the pool of its work, t when it does not matter
    wblock          \* wblock[t]: the block of its work, 0 if it has none

netVars == <<chain, pblock, miningPool>>
dbVars == <<blocks, current, news>>
workVars == <<wpool, wblock>>
vars == <<netVars, clean, dbVars, pc, workVars>>

Caller == Pool \cup {Scheduler}
Block == 1..MaxBlock
Label == {"idle", "notified", "test", "find", "set"}

\* block_exists looks at all of them.
Known(b) == \E i \in 1..Len(blocks) : blocks[i] = b

Init ==
    /\ chain = 1 /\ pblock = [p \in Pool |-> 1]
    /\ clean = [p \in Pool |-> TRUE]
    /\ miningPool \in Pool
    /\ blocks = <<>> /\ current = 0
    /\ news = [b \in Block |-> 0]
    /\ pc = [t \in Caller |-> IF t = Scheduler THEN "idle" ELSE "notified"]
    /\ wpool = [t \in Caller |-> t]
    /\ wblock = [t \in Caller |-> 0]

-----------------------------------------------------------------------------
(* The network, the pools and the choice of a pool.                        *)

\* Blocks are found so slowly that no thread is still busy with one the database
\* has dropped meanwhile.
NewBlock ==
    /\ chain < MaxBlock /\ chain' = chain + 1
    /\ \A t \in Caller : pc[t] \notin {"idle", "notified"} => wblock[t] + Lag >= chain'
    /\ \A p \in Pool : pblock[p] + Lag >= chain'
    /\ UNCHANGED <<pblock, miningPool, clean, dbVars, pc, workVars>>

\* parse_notify: a new prev_hash makes the job clean, whatever the pool says.
Notify(p) ==
    /\ pc[p] = "idle" /\ pc' = [pc EXCEPT ![p] = "notified"]
    /\ \E b \in pblock[p]..chain :
        /\ pblock' = [pblock EXCEPT ![p] = b]
        /\ clean' \in {[clean EXCEPT ![p] = c] : c \in {TRUE, b # pblock[p]}}
    /\ UNCHANGED <<chain, miningPool, dbVars, workVars>>

Switch ==
    /\ miningPool' \in Pool \ {miningPool}
    /\ UNCHANGED <<chain, pblock, clean, dbVars, pc, workVars>>

-----------------------------------------------------------------------------
(* The works.                                                              *)

TakeWork(t, p) ==
    /\ wpool' = [wpool EXCEPT ![t] = p]
    /\ wblock' = [wblock EXCEPT ![t] = pblock[p]]

\* The rthread: a work for the block database, if swork.clean is still set.
InformDatabase(p) ==
    /\ pc[p] = "notified"
    /\ IF clean[p] THEN TakeWork(p, p) /\ pc' = [pc EXCEPT ![p] = "test"]
                   ELSE pc' = [pc EXCEPT ![p] = "idle"] /\ UNCHANGED workVars
    /\ UNCHANGED <<netVars, clean, dbVars>>

\* A scheduler that makes work only of a job that is still clean.
MakeWorkIfClean ==
    /\ pc[Scheduler] = "idle" /\ clean[miningPool] /\ pc' = [pc EXCEPT ![Scheduler] = "test"]
    /\ TakeWork(Scheduler, miningPool)
    /\ UNCHANGED <<netVars, clean, dbVars>>

\* The scheduler: a work that it is going to stage.
MakeWork ==
    /\ pc[Scheduler] = "idle" /\ pc' = [pc EXCEPT ![Scheduler] = "test"]
    /\ TakeWork(Scheduler, miningPool)
    /\ UNCHANGED <<netVars, clean, dbVars>>

-----------------------------------------------------------------------------
(* test_work_current, by thread t.                                         *)

\* Whoever comes first takes swork.clean.
TakeClean(t) ==
    /\ pc[t] = "test" /\ pc' = [pc EXCEPT ![t] = "find"]
    /\ clean' = [clean EXCEPT ![wpool[t]] = FALSE]
    /\ wpool' = [wpool EXCEPT ![t] = t]
    /\ UNCHANGED <<netVars, dbVars, wblock>>

\* One that drops the newest block for the new one.
EnterForNewest(b) ==
    blocks' = Append(IF Len(blocks) > Keep - 1 THEN SubSeq(blocks, 1, Keep - 1) ELSE blocks, b)

\* The oldest block goes when the database is full.
Enter(b) ==
    blocks' = Append(IF Len(blocks) > Keep - 1 THEN Tail(blocks) ELSE blocks, b)

\* The call ends; the work is staged, or freed.
Done(t) == pc' = [pc EXCEPT ![t] = "idle"] /\ wblock' = [wblock EXCEPT ![t] = 0]

\* block_exists, under blk_lock.
FindBlock(t) ==
    /\ pc[t] = "find"
    /\ IF Known(wblock[t])
       THEN Done(t) /\ UNCHANGED <<blocks, news>>
       ELSE /\ pc' = [pc EXCEPT ![t] = "set"]
            /\ Enter(wblock[t])
            /\ news' = [news EXCEPT ![wblock[t]] = @ + 1]
            /\ UNCHANGED wblock
    /\ UNCHANGED <<netVars, clean, current, wpool>>

\* set_curblock, under ch_lock.
SetCurrent(t) ==
    /\ pc[t] = "set" /\ Done(t)
    /\ current' = wblock[t]
    /\ UNCHANGED <<netVars, clean, blocks, news, wpool>>

Test(t) == TakeClean(t) \/ FindBlock(t) \/ SetCurrent(t)

Next ==
    \/ NewBlock \/ Switch \/ MakeWork
    \/ \E p \in Pool : Notify(p) \/ InformDatabase(p)
    \/ \E t \in Caller : Test(t)

\* Threads go on; the scheduler keeps staging work.
Fairness ==
    /\ WF_vars(MakeWork)
    /\ \A p \in Pool : WF_vars(InformDatabase(p))
    /\ \A t \in Caller : WF_vars(Test(t))

Spec == Init /\ [][Next]_vars /\ Fairness

-----------------------------------------------------------------------------
(* Properties.                                                             *)

TypeOK ==
    /\ chain \in Block /\ pblock \in [Pool -> Block] /\ clean \in [Pool -> BOOLEAN]
    /\ miningPool \in Pool
    /\ blocks \in Seq(Block) /\ Len(blocks) <= Keep
    /\ current \in Block \cup {0} /\ news \in [Block -> Nat]
    /\ pc \in [Caller -> Label] /\ wpool \in [Caller -> Caller]
    /\ wblock \in [Caller -> Block \cup {0}]

\* A block is taken for a new one at most once, though pools announce it at
\* different times, threads test it concurrently, and the database forgets.
NewOnce == \A b \in Block : news[b] <= 1

\* A block that every pool works on is entered in the end, though the scheduler may
\* take swork.clean, set by the notify of that block, with a work of the one before.
NoticedInTheEnd ==
    \A b \in Block : <>[](\A p \in Pool : pblock[p] = b) => <>Known(b)
=============================================================================
