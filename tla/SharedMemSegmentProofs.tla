------------------------ MODULE SharedMemSegmentProofs ------------------------
(***************************************************************************)
(* Proofs about SharedMemSegment, for any number of servers and receivers.  *)
(* The invariant is inductive as it stands; one lemma per conjunct says     *)
(* that every step keeps it.                                                *)
(***************************************************************************)
EXTENDS SharedMemSegment, TLAPS

\* What each step writes in a mapping is a mapping again.
LEMMA MappingTypes ==
    ASSUME mapping \in Mappings, NEW n \in Names
    PROVE  /\ \A p \in Processes : Opened(n, p) \in Mappings
           /\ \A p \in Processes : Closed(n, p) \in Mappings
           /\ \A s \in Servers : Created(n, s) \in Mappings
           /\ [mapping EXCEPT ![n].magicNumber = TRUE] \in Mappings
           /\ [mapping EXCEPT ![n].detach = TRUE] \in Mappings
           /\ [mapping EXCEPT ![n].magicNumber = TRUE, ![n].detach = FALSE] \in Mappings
<1> USE DEF Mappings
<1>1. \A p \in Processes : Opened(n, p) \in Mappings
  BY DEF Opened
<1>2. \A p \in Processes :
        Without(mapping[n], p) \in [by : Servers \cup {Nobody}, openedBy : SUBSET Processes,
                                    magicNumber : BOOLEAN, detach : BOOLEAN]
  BY DEF Without, NoMapping
<1>3. \A p \in Processes : Closed(n, p) \in Mappings
  BY <1>2 DEF Closed
<1>4. \A s \in Servers : Created(n, s) \in Mappings
  BY DEF Created, Processes
<1>5. /\ [mapping EXCEPT ![n].magicNumber = TRUE] \in Mappings
      /\ [mapping EXCEPT ![n].detach = TRUE] \in Mappings
      /\ [mapping EXCEPT ![n].magicNumber = TRUE, ![n].detach = FALSE] \in Mappings
  OBVIOUS
<1> QED BY <1>1, <1>3, <1>4, <1>5

\* The sets of mappings that detach leaves differ.
LEMMA NamesDiffer ==
    /\ Names # {} /\ Names # {"info"} /\ Names # {"data"}
    /\ {"data"} # {} /\ {"data"} # {"info"}
BY DEF Names

\* A step keeps the types.
LEMMA TypeStep ==
    ASSUME IInv, [Next]_vars
    PROVE  TypeOK'
<1> USE ProcessesAssumption DEF IInv, TypeOK, Names, Processes, Detaching, ServerSteps,
       ReceiverSteps, Mappings, NoMapping
<1>1. CASE \E p \in Processes : Close(p)
  BY <1>1 DEF Close, Leaves, Closed, Without, Goto, Exists
<1>2. CASE \E p \in Processes : Reopen(p)
  BY <1>2 DEF Reopen, Leaves, Opened, LeaveDone, Goto, Exists
<1>3. CASE \E p \in Processes : Release(p)
  BY <1>3 DEF Release, Leaves, Closed, Without, LeaveDone, Goto
<1>4. CASE \E s \in Servers : CreateInfo(s)
  <2> HIDE DEF Mappings
  <2>1. mapping' \in Mappings
    BY <1>4, MappingTypes DEF CreateInfo
  <2> QED
    BY <1>4, <2>1 DEF CreateInfo, Detach, Goto
<1>5. CASE \E s \in Servers : InitInfo(s)
  <2> HIDE DEF Mappings
  <2>1. mapping' \in Mappings
    BY <1>5, MappingTypes DEF InitInfo
  <2> QED
    BY <1>5, <2>1 DEF InitInfo, Goto
<1>6. CASE \E s \in Servers : CreateSharedMem(s)
  <2> HIDE DEF Mappings
  <2>1. mapping' \in Mappings
    BY <1>6, MappingTypes DEF CreateSharedMem
  <2> QED
    BY <1>6, <2>1 DEF CreateSharedMem, Goto
<1>7. CASE \E s \in Servers : OwnerDetach(s)
  <2> HIDE DEF Mappings
  <2>1. mapping' \in Mappings
    BY <1>7, MappingTypes DEF OwnerDetach
  <2> QED
    BY <1>7, <2>1 DEF OwnerDetach, Detach, Goto
<1>8. CASE \E s \in Servers : XInit(s)
  <2> HIDE DEF Mappings
  <2>1. mapping' \in Mappings
    BY <1>8, MappingTypes DEF XInit
  <2> QED
    BY <1>8, <2>1 DEF XInit, Goto
<1>9. CASE \E s \in Servers : Kill(s)
  BY <1>9 DEF Kill, Without, Goto
<1>10. CASE \E r \in Receivers : Construct(r)
  BY <1>10 DEF Construct, OpenInfo, InfoIsGood, Opened, Exists, Goto
<1>11. CASE \E r \in Receivers : GetMemory(r)
  BY <1>11 DEF GetMemory, OpenInfo, InfoIsGood, Opened, Exists, Goto, Detach
<1>12. CASE \E r \in Receivers : CheckDetach(r)
  BY <1>12 DEF CheckDetach, Goto, Detach
<1>13. CASE \E r \in Receivers : OpenSharedMem(r)
  BY <1>13 DEF OpenSharedMem, Opened, Exists, Goto
<1>14. CASE \E r \in Receivers : Destroy(r)
  BY <1>14 DEF Destroy, Detach, Goto
<1>15. CASE \E r \in Receivers : Exit(r)
  BY <1>15 DEF Exit, Without, Goto
<1>16. CASE UNCHANGED vars
  BY <1>16 DEF vars
<1> QED
  BY <1>1, <1>2, <1>3, <1>4, <1>5, <1>6, <1>7, <1>8, <1>9, <1>10, <1>11, <1>12, <1>13,
     <1>14, <1>15, <1>16
  DEF Next, DetachInternal, ServerStep, ReceiverStep, Calls

\* A step leaves no mapping with a creator that nobody has open, nor the reverse.
LEMMA NamesStep ==
    ASSUME IInv, [Next]_vars
    PROVE  NamesKnown'
<1> USE ProcessesAssumption DEF IInv, TypeOK, Names, Processes, Detaching, ServerSteps,
       ReceiverSteps, NoMapping, Mappings, NamesKnown, ServersLeakNothing, Has, Exists
<1>1. CASE \E p \in Processes : Close(p)
  BY <1>1 DEF Close, Leaves, Closed, Without, Goto, Exists
<1>2. CASE \E p \in Processes : Reopen(p)
  BY <1>2 DEF Reopen, Leaves, Opened, LeaveDone, Goto, Exists
<1>3. CASE \E p \in Processes : Release(p)
  BY <1>3 DEF Release, Leaves, Closed, Without, LeaveDone, Goto
<1>4. CASE \E s \in Servers : CreateInfo(s)
  BY <1>4 DEF CreateInfo, Created, Opened, Detach, Goto, Exists
<1>5. CASE \E s \in Servers : InitInfo(s)
  BY <1>5 DEF InitInfo, Goto
<1>6. CASE \E s \in Servers : CreateSharedMem(s)
  BY <1>6 DEF CreateSharedMem, Created, Opened, Goto, Exists
<1>7. CASE \E s \in Servers : OwnerDetach(s)
  BY <1>7 DEF OwnerDetach, Detach, Goto
<1>8. CASE \E s \in Servers : XInit(s)
  BY <1>8 DEF XInit, Goto
<1>9. CASE \E s \in Servers : Kill(s)
  BY <1>9 DEF Kill, Without, Goto
<1>10. CASE \E r \in Receivers : Construct(r)
  BY <1>10 DEF Construct, OpenInfo, InfoIsGood, Opened, Exists, Goto
<1>11. CASE \E r \in Receivers : GetMemory(r)
  BY <1>11 DEF GetMemory, OpenInfo, InfoIsGood, Opened, Exists, Goto, Detach
<1>12. CASE \E r \in Receivers : CheckDetach(r)
  BY <1>12 DEF CheckDetach, Goto, Detach
<1>13. CASE \E r \in Receivers : OpenSharedMem(r)
  BY <1>13 DEF OpenSharedMem, Opened, Exists, Goto
<1>14. CASE \E r \in Receivers : Destroy(r)
  BY <1>14 DEF Destroy, Detach, Goto
<1>15. CASE \E r \in Receivers : Exit(r)
  BY <1>15 DEF Exit, Without, Goto
<1>16. CASE UNCHANGED vars
  BY <1>16 DEF vars
<1> QED
  BY <1>1, <1>2, <1>3, <1>4, <1>5, <1>6, <1>7, <1>8, <1>9, <1>10, <1>11, <1>12, <1>13,
     <1>14, <1>15, <1>16
  DEF Next, DetachInternal, ServerStep, ReceiverStep, Calls

\* What a server has open follows from where it is in setup_shmem_for_outlines.
LEMMA ServersStep ==
    ASSUME IInv, [Next]_vars
    PROVE  ServersLeakNothing'
<1> USE ProcessesAssumption DEF IInv, TypeOK, Names, Processes, Detaching, ServerSteps,
       ReceiverSteps, NoMapping, Mappings, ServersLeakNothing, DetachKnowsWhatIsLeft,
       Has, Exists
<1>1. CASE \E p \in Processes : Close(p)
  BY <1>1 DEF Close, Leaves, Closed, Without, Goto, Exists
<1>2. CASE \E p \in Processes : Reopen(p)
  BY <1>2 DEF Reopen, Leaves, Opened, LeaveDone, Goto, Exists
<1>3. CASE \E p \in Processes : Release(p)
  BY <1>3 DEF Release, Leaves, Closed, Without, LeaveDone, Goto
<1>4. CASE \E s \in Servers : CreateInfo(s)
  BY <1>4 DEF CreateInfo, Created, Opened, Detach, Goto, Exists
<1>5. CASE \E s \in Servers : InitInfo(s)
  BY <1>5 DEF InitInfo, Goto
<1>6. CASE \E s \in Servers : CreateSharedMem(s)
  BY <1>6 DEF CreateSharedMem, Created, Opened, Goto, Exists
<1>7. CASE \E s \in Servers : OwnerDetach(s)
  BY <1>7 DEF OwnerDetach, Detach, Goto
<1>8. CASE \E s \in Servers : XInit(s)
  BY <1>8 DEF XInit, Goto
<1>9. CASE \E s \in Servers : Kill(s)
  BY <1>9 DEF Kill, Without, Goto
<1>10. CASE \E r \in Receivers : Construct(r)
  BY <1>10 DEF Construct, OpenInfo, InfoIsGood, Opened, Exists, Goto
<1>11. CASE \E r \in Receivers : GetMemory(r)
  BY <1>11 DEF GetMemory, OpenInfo, InfoIsGood, Opened, Exists, Goto, Detach
<1>12. CASE \E r \in Receivers : CheckDetach(r)
  BY <1>12 DEF CheckDetach, Goto, Detach
<1>13. CASE \E r \in Receivers : OpenSharedMem(r)
  BY <1>13 DEF OpenSharedMem, Opened, Exists, Goto
<1>14. CASE \E r \in Receivers : Destroy(r)
  BY <1>14 DEF Destroy, Detach, Goto
<1>15. CASE \E r \in Receivers : Exit(r)
  BY <1>15 DEF Exit, Without, Goto
<1>16. CASE UNCHANGED vars
  BY <1>16 DEF vars
<1> QED
  BY <1>1, <1>2, <1>3, <1>4, <1>5, <1>6, <1>7, <1>8, <1>9, <1>10, <1>11, <1>12, <1>13,
     <1>14, <1>15, <1>16
  DEF Next, DetachInternal, ServerStep, ReceiverStep, Calls

\* What a receiver has open follows from where it is in getMemory and detach.
LEMMA ReceiversStep ==
    ASSUME IInv, [Next]_vars
    PROVE  ReceiversLeakNothing'
<1> USE ProcessesAssumption, NamesDiffer DEF IInv, TypeOK, Names, Processes, Detaching,
       ServerSteps, ReceiverSteps, NoMapping, Mappings, ReceiversLeakNothing,
       DetachKnowsWhatIsLeft, Has, Exists
<1>1. CASE \E p \in Processes : Close(p)
  BY <1>1 DEF Close, Leaves, Closed, Without, Goto, Exists
<1>2. CASE \E p \in Processes : Reopen(p)
  BY <1>2 DEF Reopen, Leaves, Opened, LeaveDone, Goto, Exists
<1>3. CASE \E p \in Processes : Release(p)
  BY <1>3 DEF Release, Leaves, Closed, Without, LeaveDone, Goto
<1>4. CASE \E s \in Servers : CreateInfo(s)
  BY <1>4 DEF CreateInfo, Created, Opened, Detach, Goto, Exists
<1>5. CASE \E s \in Servers : InitInfo(s)
  BY <1>5 DEF InitInfo, Goto
<1>6. CASE \E s \in Servers : CreateSharedMem(s)
  BY <1>6 DEF CreateSharedMem, Created, Opened, Goto, Exists
<1>7. CASE \E s \in Servers : OwnerDetach(s)
  BY <1>7 DEF OwnerDetach, Detach, Goto
<1>8. CASE \E s \in Servers : XInit(s)
  BY <1>8 DEF XInit, Goto
<1>9. CASE \E s \in Servers : Kill(s)
  BY <1>9 DEF Kill, Without, Goto
<1>10. CASE \E r \in Receivers : Construct(r)
  BY <1>10 DEF Construct, OpenInfo, InfoIsGood, Opened, Exists, Goto
<1>11. CASE \E r \in Receivers : GetMemory(r)
  <2>0. PICK r \in Receivers : GetMemory(r)
    BY <1>11
  <2>1. CASE info[r] = "open"
    BY <2>0, <2>1 DEF GetMemory, OpenInfo, InfoIsGood, Opened, Goto, Detach
  <2>2. CASE info[r] = "failed"
    <3> HIDE DEF Names
    <3> QED
      BY <2>0, <2>2 DEF GetMemory, OpenInfo, InfoIsGood, Opened, Goto, Detach
  <2>3. CASE info[r] = "NULL" /\ InfoIsGood
    BY <2>0, <2>3 DEF GetMemory, OpenInfo, InfoIsGood, Opened, Goto, Detach
  <2>4. CASE info[r] = "NULL" /\ ~ InfoIsGood
    BY SMTT(60), <2>0, <2>4 DEF GetMemory, OpenInfo, InfoIsGood, Opened, Goto, Detach
  <2> QED
    BY <2>0, <2>1, <2>2, <2>3, <2>4 DEF InfoIsGood
<1>12. CASE \E r \in Receivers : CheckDetach(r)
  BY SMTT(60), <1>12 DEF CheckDetach, Goto, Detach
<1>13. CASE \E r \in Receivers : OpenSharedMem(r)
  BY <1>13 DEF OpenSharedMem, Opened, Exists, Goto
<1>14. CASE \E r \in Receivers : Destroy(r)
  <2> HIDE DEF Names
  <2>0. PICK r \in Receivers : Destroy(r)
    BY <1>14
  <2>1. CASE info[r] = "NULL"
    BY <2>0, <2>1 DEF Destroy, Detach, Goto
  <2>2. CASE info[r] # "NULL"
    BY <2>0, <2>2 DEF Destroy, Detach, Goto
  <2> QED
    BY <2>0, <2>1, <2>2 DEF InfoIsGood
<1>15. CASE \E r \in Receivers : Exit(r)
  BY <1>15 DEF Exit, Without, Goto
<1>16. CASE UNCHANGED vars
  BY <1>16 DEF vars
<1> QED
  BY <1>1, <1>2, <1>3, <1>4, <1>5, <1>6, <1>7, <1>8, <1>9, <1>10, <1>11, <1>12, <1>13,
     <1>14, <1>15, <1>16
  DEF Next, DetachInternal, ServerStep, ReceiverStep, Calls

\* detachInternal leaves the mappings one by one, each before the next.
LEMMA DetachStep ==
    ASSUME IInv, [Next]_vars
    PROVE  DetachKnowsWhatIsLeft'
<1> USE ProcessesAssumption, NamesDiffer DEF IInv, TypeOK, Names, Processes, Detaching,
       ServerSteps, ReceiverSteps, NoMapping, Mappings, Leaves, ServersLeakNothing,
       ReceiversLeakNothing, DetachKnowsWhatIsLeft, Has, Exists
<1>1. CASE \E p \in Processes : Close(p)
  BY <1>1 DEF Close, Leaves, Closed, Without, Goto, Exists
<1>2. CASE \E p \in Processes : Reopen(p)
  BY <1>2 DEF Reopen, Leaves, Opened, LeaveDone, Goto, Exists
<1>3. CASE \E p \in Processes : Release(p)
  BY <1>3 DEF Release, Leaves, Closed, Without, LeaveDone, Goto
<1>4. CASE \E s \in Servers : CreateInfo(s)
  BY SMTT(60), <1>4 DEF CreateInfo, Created, Opened, Detach, Goto, Exists
<1>5. CASE \E s \in Servers : InitInfo(s)
  BY <1>5 DEF InitInfo, Goto
<1>6. CASE \E s \in Servers : CreateSharedMem(s)
  BY <1>6 DEF CreateSharedMem, Created, Opened, Goto, Exists
<1>7. CASE \E s \in Servers : OwnerDetach(s)
  BY <1>7 DEF OwnerDetach, Detach, Goto
<1>8. CASE \E s \in Servers : XInit(s)
  BY <1>8 DEF XInit, Goto
<1>9. CASE \E s \in Servers : Kill(s)
  BY <1>9 DEF Kill, Without, Goto
<1>10. CASE \E r \in Receivers : Construct(r)
  <2>0. PICK r \in Receivers : Construct(r)
    BY <1>10
  <2>1. CASE InfoIsGood
    BY <2>0, <2>1 DEF Construct, OpenInfo, InfoIsGood, Opened, Goto
  <2>2. CASE ~ InfoIsGood /\ Exists("info")
    <3>1. /\ todo' = todo /\ todo[r] = {}
          /\ pc' = [pc EXCEPT ![r] = pc'[r]] /\ pc'[r] \in {"open", "check", "idle"}
      BY <2>0, <2>2 DEF Construct, Goto, Exists, OpenInfo
    <3>2. \A p \in Processes \ {r}, n \in {"info", "data"} : Has(p, n)' <=> Has(p, n)
      BY <2>0, <2>2 DEF Construct, OpenInfo, Opened
    <3> HIDE DEF Has
    <3> QED
      BY SMTT(60), <3>1, <3>2
  <2>3. CASE ~ Exists("info")
    BY <2>0, <2>3 DEF Construct, OpenInfo, InfoIsGood, Opened, Goto
  <2> QED
    BY <2>0, <2>1, <2>2, <2>3 DEF InfoIsGood
<1>11. CASE \E r \in Receivers : GetMemory(r)
  <2>0. PICK r \in Receivers : GetMemory(r)
    BY <1>11
  <2>1. CASE info[r] = "open"
    BY <2>0, <2>1 DEF GetMemory, OpenInfo, InfoIsGood, Opened, Goto, Detach
  <2>2. CASE info[r] = "failed"
    BY <2>0, <2>2 DEF GetMemory, OpenInfo, InfoIsGood, Opened, Goto, Detach
  <2>3. CASE info[r] = "NULL" /\ InfoIsGood
    <3>1. /\ todo' = todo /\ todo[r] = {}
          /\ pc' = [pc EXCEPT ![r] = pc'[r]] /\ pc'[r] \in {"open", "check", "idle"}
      BY <2>0, <2>3 DEF GetMemory, Goto, Exists, OpenInfo
    <3>2. \A p \in Processes \ {r}, n \in {"info", "data"} : Has(p, n)' <=> Has(p, n)
      BY <2>0, <2>3 DEF GetMemory, OpenInfo, Opened
    <3> HIDE DEF Has
    <3> QED
      BY <3>1, <3>2
  <2>4. CASE info[r] = "NULL" /\ ~ InfoIsGood
    BY SMTT(60), <2>0, <2>4 DEF GetMemory, OpenInfo, InfoIsGood, Opened, Goto, Detach
  <2> QED
    BY <2>0, <2>1, <2>2, <2>3, <2>4 DEF InfoIsGood
<1>12. CASE \E r \in Receivers : CheckDetach(r)
  BY SMTT(60), <1>12 DEF CheckDetach, Goto, Detach
<1>13. CASE \E r \in Receivers : OpenSharedMem(r)
  BY <1>13 DEF OpenSharedMem, Opened, Exists, Goto
<1>14. CASE \E r \in Receivers : Destroy(r)
  <2>0. PICK r \in Receivers : Destroy(r)
    BY <1>14
  <2>1. CASE info[r] = "NULL"
    BY <2>0, <2>1 DEF Destroy, Detach, Goto
  <2>2. CASE info[r] # "NULL"
    BY <2>0, <2>2 DEF Destroy, Detach, Goto
  <2> QED
    BY <2>0, <2>1, <2>2 DEF InfoIsGood
<1>15. CASE \E r \in Receivers : Exit(r)
  BY <1>15 DEF Exit, Without, Goto
<1>16. CASE UNCHANGED vars
  BY <1>16 DEF vars
<1> QED
  BY <1>1, <1>2, <1>3, <1>4, <1>5, <1>6, <1>7, <1>8, <1>9, <1>10, <1>11, <1>12, <1>13,
     <1>14, <1>15, <1>16
  DEF Next, DetachInternal, ServerStep, ReceiverStep, Calls

\* A server that has created its mappings stays their creator: its handle keeps them alive.
LEMMA OwnStep ==
    ASSUME IInv, [Next]_vars
    PROVE  OwnSegment'
<1> USE ProcessesAssumption DEF IInv, TypeOK, Names, Processes, Detaching, ServerSteps,
       ReceiverSteps, NoMapping, Mappings, ServersLeakNothing, OwnSegment, Has, Exists
<1>1. CASE \E p \in Processes : Close(p)
  BY <1>1 DEF Close, Leaves, Closed, Without, Goto, Exists
<1>2. CASE \E p \in Processes : Reopen(p)
  BY <1>2 DEF Reopen, Leaves, Opened, LeaveDone, Goto, Exists
<1>3. CASE \E p \in Processes : Release(p)
  BY <1>3 DEF Release, Leaves, Closed, Without, LeaveDone, Goto
<1>4. CASE \E s \in Servers : CreateInfo(s)
  BY <1>4 DEF CreateInfo, Created, Opened, Detach, Goto, Exists
<1>5. CASE \E s \in Servers : InitInfo(s)
  BY <1>5 DEF InitInfo, Goto
<1>6. CASE \E s \in Servers : CreateSharedMem(s)
  BY <1>6 DEF CreateSharedMem, Created, Opened, Goto, Exists
<1>7. CASE \E s \in Servers : OwnerDetach(s)
  BY <1>7 DEF OwnerDetach, Detach, Goto
<1>8. CASE \E s \in Servers : XInit(s)
  BY <1>8 DEF XInit, Goto
<1>9. CASE \E s \in Servers : Kill(s)
  BY <1>9 DEF Kill, Without, Goto
<1>10. CASE \E r \in Receivers : Construct(r)
  BY <1>10 DEF Construct, OpenInfo, InfoIsGood, Opened, Exists, Goto
<1>11. CASE \E r \in Receivers : GetMemory(r)
  BY <1>11 DEF GetMemory, OpenInfo, InfoIsGood, Opened, Exists, Goto, Detach
<1>12. CASE \E r \in Receivers : CheckDetach(r)
  BY <1>12 DEF CheckDetach, Goto, Detach
<1>13. CASE \E r \in Receivers : OpenSharedMem(r)
  BY <1>13 DEF OpenSharedMem, Opened, Exists, Goto
<1>14. CASE \E r \in Receivers : Destroy(r)
  BY <1>14 DEF Destroy, Detach, Goto
<1>15. CASE \E r \in Receivers : Exit(r)
  BY <1>15 DEF Exit, Without, Goto
<1>16. CASE UNCHANGED vars
  BY <1>16 DEF vars
<1> QED
  BY <1>1, <1>2, <1>3, <1>4, <1>5, <1>6, <1>7, <1>8, <1>9, <1>10, <1>11, <1>12, <1>13,
     <1>14, <1>15, <1>16
  DEF Next, DetachInternal, ServerStep, ReceiverStep, Calls

\* A server that gives up has set info->detach before it leaves.
LEMMA MarkedStep ==
    ASSUME IInv, [Next]_vars
    PROVE  MarkedWhenGivenUp'
<1> USE ProcessesAssumption DEF IInv, TypeOK, Names, Processes, Detaching, ServerSteps,
       ReceiverSteps, NoMapping, Mappings, NamesKnown, ServersLeakNothing, OwnSegment,
       MarkedWhenGivenUp, Has, Exists
<1>1. CASE \E p \in Processes : Close(p)
  BY <1>1 DEF Close, Leaves, Closed, Without, Goto, Exists
<1>2. CASE \E p \in Processes : Reopen(p)
  BY <1>2 DEF Reopen, Leaves, Opened, LeaveDone, Goto, Exists
<1>3. CASE \E p \in Processes : Release(p)
  BY <1>3 DEF Release, Leaves, Closed, Without, LeaveDone, Goto
<1>4. CASE \E s \in Servers : CreateInfo(s)
  BY <1>4 DEF CreateInfo, Created, Opened, Detach, Goto, Exists
<1>5. CASE \E s \in Servers : InitInfo(s)
  BY <1>5 DEF InitInfo, Goto
<1>6. CASE \E s \in Servers : CreateSharedMem(s)
  BY <1>6 DEF CreateSharedMem, Created, Opened, Goto, Exists
<1>7. CASE \E s \in Servers : OwnerDetach(s)
  BY <1>7 DEF OwnerDetach, Detach, Goto
<1>8. CASE \E s \in Servers : XInit(s)
  BY <1>8 DEF XInit, Goto
<1>9. CASE \E s \in Servers : Kill(s)
  BY <1>9 DEF Kill, Without, Goto
<1>10. CASE \E r \in Receivers : Construct(r)
  BY <1>10 DEF Construct, OpenInfo, InfoIsGood, Opened, Exists, Goto
<1>11. CASE \E r \in Receivers : GetMemory(r)
  BY <1>11 DEF GetMemory, OpenInfo, InfoIsGood, Opened, Exists, Goto, Detach
<1>12. CASE \E r \in Receivers : CheckDetach(r)
  BY <1>12 DEF CheckDetach, Goto, Detach
<1>13. CASE \E r \in Receivers : OpenSharedMem(r)
  BY <1>13 DEF OpenSharedMem, Opened, Exists, Goto
<1>14. CASE \E r \in Receivers : Destroy(r)
  BY <1>14 DEF Destroy, Detach, Goto
<1>15. CASE \E r \in Receivers : Exit(r)
  BY <1>15 DEF Exit, Without, Goto
<1>16. CASE UNCHANGED vars
  BY <1>16 DEF vars
<1> QED
  BY <1>1, <1>2, <1>3, <1>4, <1>5, <1>6, <1>7, <1>8, <1>9, <1>10, <1>11, <1>12, <1>13,
     <1>14, <1>15, <1>16
  DEF Next, DetachInternal, ServerStep, ReceiverStep, Calls

\* Every conjunct of the invariant after a step, from all of them before it.
LEMMA InvStep ==
    ASSUME IInv, [Next]_vars
    PROVE  IInv'
BY TypeStep, NamesStep, ServersStep, ReceiversStep, DetachStep, OwnStep, MarkedStep DEF IInv

\* The invariant holds when no process has been started.
LEMMA InvInit ==
    Init => IInv
<1> SUFFICES ASSUME Init
             PROVE  IInv
  OBVIOUS
<1> USE ProcessesAssumption DEF Init, Names, Processes, NoMapping, Has, Exists
<1>1. TypeOK
  BY DEF TypeOK, Mappings, ServerSteps, ReceiverSteps, Detaching
<1>2. NamesKnown /\ ServersLeakNothing /\ ReceiversLeakNothing
  BY DEF NamesKnown, ServersLeakNothing, ReceiversLeakNothing, Detaching
<1>3. DetachKnowsWhatIsLeft /\ OwnSegment /\ MarkedWhenGivenUp
  BY DEF DetachKnowsWhatIsLeft, OwnSegment, MarkedWhenGivenUp, Detaching
<1> QED
  BY <1>1, <1>2, <1>3 DEF IInv

\* However many servers and receivers start, end, are killed and detach, none keeps a
\* mapping open that it has given up, and a server that gets through setup_shmem_for_outlines is in
\* mappings of its own.
THEOREM Invariance ==
    Spec => []IInv
<1>1. IInv /\ [Next]_vars => IInv'
  BY InvStep
<1> QED
  BY InvInit, <1>1, PTL DEF Spec

\* No two servers are ever past createInfo: nobody's outlines are ever written over.
AtWork == {"info", "create", "detach", "xinit", "publishing"}

OneServer ==
    \A s, t \in Servers : pc[s] \in AtWork /\ pc[t] \in AtWork => s = t

\* setup_shmem_for_outlines never lets a second server through.
THEOREM OneServerAtWork ==
    Spec => []OneServer
<1>1. IInv => OneServer
  BY DEF IInv, OwnSegment, OneServer, AtWork
<1> QED
  BY Invariance, <1>1, PTL

\* A receiver that has the info block of one server and the data of another is told by
\* info->detach, or the first of them is still setting up or has been killed in it: a server
\* that has set up has created both, and one that has given up has marked its info block.
THEOREM SameServerOrTold ==
    Spec => []SameServer
<1>1. IInv => SameServer
  <2> SUFFICES ASSUME IInv, NEW r \in Receivers, Has(r, "info"), Has(r, "data"),
                      mapping["info"].by # mapping["data"].by
               PROVE  \/ mapping["info"].detach
                      \/ pc[mapping["info"].by] \in {"info", "create", "detach", "killed"}
    BY DEF SameServer
  <2> DEFINE s == mapping["info"].by
  <2>1. s \in Servers /\ pc[s] # "off"
    BY DEF IInv, TypeOK, Mappings, NamesKnown, Names, Has, Exists
  <2>2. pc[s] \notin {"xinit", "publishing"}
    BY <2>1 DEF IInv, OwnSegment
  <2>3. pc[s] \in Detaching \cup {"failed"} => mapping["info"].detach
    BY <2>1 DEF IInv, MarkedWhenGivenUp
  <2>4. pc[s] \in ServerSteps
    BY <2>1 DEF IInv, TypeOK
  <2> QED
    BY <2>1, <2>2, <2>3, <2>4 DEF ServerSteps
<1> QED
  BY Invariance, <1>1, PTL
=============================================================================
