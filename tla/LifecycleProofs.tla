--------------------------- MODULE LifecycleProofs ---------------------------
(* What Lifecycle's runs check for three devices, proved for any number of   *)
(* devices, with any endpoints, and any number of preparations.              *)
EXTENDS Lifecycle, TLAPS

Selected == {"descriptor", "protocol", "write", "reader", "number", "pdo",
             "prepared", "d0", "off"}
Described == Selected \ {"descriptor"}
Ready == {"prepared", "d0", "off"}

\* What the context of device d has in each phase.
CreatedInv(d) == phase[d] \notin {"absent", "failed"} => CreatedSet \subseteq context[d]
StaleInv(d) == stale[d] \subseteq Pipe \cup {"reader"}
\* A pipe of an earlier configuration stands for an endpoint that the device still has:
\* this is why the check of the context finds a missing pipe.
EndpointInv(d) == context[d] \cap Pipe \subseteq Endpoint[d]
PipeInv(d) == phase[d] \in Selected => Pipe \subseteq context[d] \ stale[d]
DescriptorInv(d) == phase[d] \in Described => "usbDeviceDescriptor" \in context[d]
ReaderInv(d) == phase[d] \in Ready => ReaderReady(d)

ContextInv(d) == /\ CreatedInv(d)
                 /\ StaleInv(d)
                 /\ EndpointInv(d)
                 /\ PipeInv(d)
                 /\ DescriptorInv(d)
                 /\ ReaderInv(d)

\* Without a race the number that is being used is the largest so far.
CountInv ==
    ~raced =>
        /\ \A d \in Device : \A i \in pdos[d] : i < deviceCount
        /\ \A d \in Device : phase[d] = "pdo" => instance[d] = deviceCount
        /\ \A d, e \in Device : phase[d] = "pdo" /\ phase[e] = "pdo" => d = e

-----------------------------------------------------------------------------
\* Initially every variable has its type.
LEMMA TypeInit ==
    ASSUME Init
    PROVE  TypeOK
<1>1. phase \in [Device -> Phase]
  BY DEF Init, Phase
<1>2. context \in [Device -> SUBSET Object] /\ stale \in [Device -> SUBSET Object]
  BY DEF Init
<1>3. \A d \in Device : stale[d] \subseteq context[d]
  BY DEF Init
<1>4. deviceCount \in Nat /\ instance \in [Device -> Nat] /\ pdos \in [Device -> SUBSET Nat]
  BY DEF Init
<1>5. raced \in BOOLEAN
  BY DEF Init
<1> QED
  BY <1>1, <1>2, <1>3, <1>4, <1>5 DEF TypeOK

\* Every action preserves the types.
LEMMA TypeStep ==
    ASSUME TypeOK, [Next]_vars
    PROVE  TypeOK'
<1>0. TypeOK /\ EndpointAssumption
  BY EndpointAssumption
<1>1. ASSUME NEW d \in Device, NEW n \in 0 .. 7, CreateDevice(d, n) PROVE TypeOK'
  <2>1. {Created[i] : i \in 1 .. n} \subseteq Object
    BY DEF CreatedSet, Object
  <2> QED
    BY <1>0, <1>1, <2>1 DEF TypeOK, CreateDevice, Goes, Gets, Phase
<1>2. ASSUME NEW d \in Device, PrepareHardware(d) \/ Fails(d) PROVE TypeOK'
  BY <1>0, <1>2 DEF TypeOK, PrepareHardware, Fails, Goes, Phase, Preparing
<1>3. ASSUME NEW d \in Device, CreateUsbDevice(d) \/ CreateDescriptor(d) PROVE TypeOK'
  BY <1>0, <1>3 DEF TypeOK, CreateUsbDevice, CreateDescriptor, Goes, Gets, Phase,
                    Preparing, Object
<1>4. ASSUME NEW d \in Device, NEW configured \in BOOLEAN, SelectInterfaces(d, configured)
      PROVE  TypeOK'
  <2> DEFINE found == IF configured THEN Endpoint[d] ELSE {}
             used == context[d] \cap (Pipe \cup {"reader"})
  <2>1. found \subseteq Pipe /\ Pipe \subseteq Object
    BY EndpointAssumption DEF EndpointAssumption, Object
  <2>2. /\ phase' \in [Device -> Phase]
        /\ context' = [context EXCEPT ![d] = @ \cup found]
        /\ stale' = [stale EXCEPT ![d] = (@ \cup used) \ found]
        /\ UNCHANGED <<deviceCount, instance, pdos, raced>>
    BY <1>0, <1>4 DEF TypeOK, SelectInterfaces, Goes, Gets, Phase, Preparing
  <2> QED
    BY <1>0, <2>1, <2>2 DEF TypeOK
<1>5. ASSUME NEW d \in Device, SetProtocol(d) \/ WriteInit(d) PROVE TypeOK'
  BY <1>0, <1>5 DEF TypeOK, SetProtocol, WriteInit, Goes, Phase, Preparing
<1>6. ASSUME NEW d \in Device, NEW ok \in BOOLEAN, ConfigureReader(d, ok) PROVE TypeOK'
  BY <1>0, <1>6 DEF TypeOK, ConfigureReader, Goes, Gets, Phase, Preparing, Object
<1>7. ASSUME NEW d \in Device, ReadCount(d) PROVE TypeOK'
  BY <1>0, <1>7 DEF TypeOK, ReadCount, Goes, Phase, Preparing
<1>8. ASSUME NEW d \in Device, NEW created \in BOOLEAN, CreateRawPdo(d, created)
      PROVE  TypeOK'
  BY <1>0, <1>8 DEF TypeOK, CreateRawPdo, Goes, Phase
<1>9. ASSUME NEW d \in Device, NEW started \in BOOLEAN, D0Entry(d, started) \/ D0Exit(d)
      PROVE  TypeOK'
  BY <1>0, <1>9 DEF TypeOK, D0Entry, D0Exit, Goes, Phase
<1>10. ASSUME NEW d \in Device, Remove(d) PROVE TypeOK'
  BY <1>0, <1>10 DEF TypeOK, Remove, Phase
<1>11. ASSUME UNCHANGED vars PROVE TypeOK'
  BY <1>0, <1>11 DEF TypeOK, vars
<1> QED
  BY <1>1, <1>2, <1>3, <1>4, <1>5, <1>6, <1>7, <1>8, <1>9, <1>10, <1>11
  DEF Next, Live, Prepare

\* Every variable keeps its type, whatever fails.
THEOREM LifecycleTypes == Spec => []TypeOK
<1>1. Init => TypeOK
  BY TypeInit
<1>2. TypeOK /\ [Next]_vars => TypeOK'
  BY TypeStep
<1> QED
  BY <1>1, <1>2, PTL DEF Spec

-----------------------------------------------------------------------------
(* The context.  A step of one device leaves the others' alone.            *)

\* A step of one device leaves the context of every other as it is.
LEMMA OthersContext ==
    ASSUME TypeOK, NEW d \in Device, Live(d), NEW e \in Device, e # d, ContextInv(e)
    PROVE  ContextInv(e)'
<1>1. phase'[e] = phase[e] /\ context'[e] = context[e] /\ stale'[e] = stale[e]
  BY DEF TypeOK, Live, Prepare, CreateDevice, PrepareHardware, Fails, CreateUsbDevice,
         SelectInterfaces, CreateDescriptor, SetProtocol, WriteInit, ConfigureReader,
         ReadCount, CreateRawPdo, D0Entry, D0Exit, Remove, Goes, Gets
<1> QED
  BY <1>1 DEF ContextInv, CreatedInv, StaleInv, EndpointInv, PipeInv, DescriptorInv,
              ReaderInv, ReaderReady

\* Every step of a device preserves what its phase says of its context.
LEMMA ContextStep ==
    ASSUME TypeOK, NEW d \in Device, Live(d), ContextInv(d)
    PROVE  ContextInv(d)'
<1> USE DEF Selected, Described, Ready, ReaderReady
<1>0. Endpoint[d] \subseteq Pipe
  BY EndpointAssumption DEF EndpointAssumption
<1>1. ASSUME NEW n \in 0 .. 7, CreateDevice(d, n) PROVE ContextInv(d)'
  <2>1. phase[d] = "absent" /\ phase'[d] = (IF n = 7 THEN "added" ELSE "failed")
    BY <1>1 DEF CreateDevice, Goes, TypeOK
  <2>2. context'[d] = context[d] \cup {Created[i] : i \in 1 .. n} /\ stale'[d] = stale[d]
    BY <1>1 DEF CreateDevice, Gets, TypeOK
  <2>3. {Created[i] : i \in 1 .. n} \cap Pipe = {}
    BY DEF Created, Pipe
  <2>4. CreatedInv(d)'
    BY <2>1, <2>2 DEF CreatedInv, CreatedSet
  <2>5. StaleInv(d)' /\ EndpointInv(d)'
    BY <2>2, <2>3 DEF ContextInv, StaleInv, EndpointInv
  <2> QED
    BY <2>1, <2>4, <2>5 DEF ContextInv, PipeInv, DescriptorInv, ReaderInv
<1>2. ASSUME PrepareHardware(d) \/ Fails(d) \/ D0Exit(d) PROVE ContextInv(d)'
  <2>1. context'[d] = context[d] /\ stale'[d] = stale[d]
    BY <1>2 DEF PrepareHardware, Fails, D0Exit
  <2>2. \/ phase[d] \in {"added", "off"} /\ phase'[d] = "usb"
        \/ phase'[d] = "failed"
        \/ phase[d] = "d0" /\ phase'[d] = "off"
    BY <1>2 DEF PrepareHardware, Fails, D0Exit, Goes, TypeOK
  <2> QED
    BY <2>1, <2>2 DEF ContextInv, CreatedInv, StaleInv, EndpointInv, PipeInv,
                      DescriptorInv, ReaderInv
<1>3. ASSUME CreateUsbDevice(d) \/ CreateDescriptor(d) PROVE ContextInv(d)'
  <2>1. PICK object \in {"usbDevice", "usbDeviceDescriptor"} :
            /\ context'[d] = context[d] \cup {object}
            /\ stale'[d] = stale[d]
            /\ \/ phase[d] = "usb" /\ phase'[d] = "select"
               \/ /\ phase[d] = "descriptor" /\ phase'[d] = "protocol"
                  /\ object = "usbDeviceDescriptor"
    BY <1>3 DEF CreateUsbDevice, CreateDescriptor, Goes, Gets, TypeOK
  <2>2. object \notin Pipe
    BY <2>1 DEF Pipe
  <2> QED
    BY <2>1, <2>2 DEF ContextInv, CreatedInv, StaleInv, EndpointInv, PipeInv,
                      DescriptorInv, ReaderInv
<1>4. ASSUME NEW configured \in BOOLEAN, SelectInterfaces(d, configured)
      PROVE  ContextInv(d)'
  <2> DEFINE found == IF configured THEN Endpoint[d] ELSE {}
             used == context[d] \cap (Pipe \cup {"reader"})
  <2>1. /\ phase[d] = "select"
        /\ \/ phase'[d] = "failed"
           \/ phase'[d] = "descriptor" /\ configured /\ Pipe \subseteq context[d] \cup found
    BY <1>4 DEF SelectInterfaces, Goes, TypeOK
  <2>2. context'[d] = context[d] \cup found /\ stale'[d] = (stale[d] \cup used) \ found
    BY <1>4 DEF SelectInterfaces, Gets, TypeOK
  <2>3. CreatedInv(d)' /\ StaleInv(d)' /\ EndpointInv(d)'
    BY <1>0, <2>1, <2>2 DEF ContextInv, CreatedInv, StaleInv, EndpointInv
  <2>4. PipeInv(d)'
    BY <2>1, <2>2 DEF ContextInv, PipeInv, EndpointInv
  <2> QED
    BY <2>1, <2>3, <2>4 DEF ContextInv, DescriptorInv, ReaderInv
<1>5. ASSUME SetProtocol(d) \/ WriteInit(d) \/ ReadCount(d) PROVE ContextInv(d)'
  <2>1. context'[d] = context[d] /\ stale'[d] = stale[d]
    BY <1>5 DEF SetProtocol, WriteInit, ReadCount
  <2>2. /\ phase[d] \in {"protocol", "write", "number"}
        /\ phase'[d] \in {"write", "reader", "pdo"}
    BY <1>5 DEF SetProtocol, WriteInit, ReadCount, Goes, TypeOK
  <2> QED
    BY <2>1, <2>2 DEF ContextInv, CreatedInv, StaleInv, EndpointInv, PipeInv,
                      DescriptorInv, ReaderInv
<1>6. ASSUME NEW ok \in BOOLEAN, ConfigureReader(d, ok) PROVE ContextInv(d)'
  <2>1. /\ phase[d] = "reader" /\ phase'[d] = "number"
        /\ context'[d] = context[d] \cup (IF ok THEN {"reader"} ELSE {})
        /\ stale'[d] \subseteq stale[d]
    BY <1>6 DEF ConfigureReader, Goes, Gets, TypeOK
  <2>2. "reader" \notin Pipe
    BY DEF Pipe
  <2> QED
    BY <2>1, <2>2 DEF ContextInv, CreatedInv, StaleInv, EndpointInv, PipeInv,
                      DescriptorInv, ReaderInv
<1>7. ASSUME NEW created \in BOOLEAN, CreateRawPdo(d, created) PROVE ContextInv(d)'
  <2>1. context'[d] = context[d] /\ stale'[d] = stale[d]
    BY <1>7 DEF CreateRawPdo
  <2>2. /\ phase[d] = "pdo"
        /\ phase'[d] = (IF ReaderReady(d) THEN "prepared" ELSE "failed")
    BY <1>7 DEF CreateRawPdo, Goes, TypeOK
  <2> QED
    BY <2>1, <2>2 DEF ContextInv, CreatedInv, StaleInv, EndpointInv, PipeInv,
                      DescriptorInv, ReaderInv
<1>8. ASSUME NEW started \in BOOLEAN, D0Entry(d, started) PROVE ContextInv(d)'
  <2>1. context'[d] = context[d] /\ stale'[d] = stale[d]
    BY <1>8 DEF D0Entry
  <2>2. phase[d] \in {"prepared", "off"} /\ phase'[d] \in {"d0", "failed"}
    BY <1>8 DEF D0Entry, Goes, TypeOK
  <2> QED
    BY <2>1, <2>2 DEF ContextInv, CreatedInv, StaleInv, EndpointInv, PipeInv,
                      DescriptorInv, ReaderInv
<1>9. ASSUME Remove(d) PROVE ContextInv(d)'
  <2>1. phase'[d] = "absent" /\ context'[d] = {} /\ stale'[d] = {}
    BY <1>9 DEF Remove, TypeOK
  <2> QED
    BY <2>1 DEF ContextInv, CreatedInv, StaleInv, EndpointInv, PipeInv, DescriptorInv,
                ReaderInv
<1> QED
  BY <1>1, <1>2, <1>3, <1>4, <1>5, <1>6, <1>7, <1>8, <1>9 DEF Live, Prepare

\* In the phases in which a callback may run the context holds all that the callback uses.
LEMMA ContextSuffices ==
    ASSUME \A d \in Device : ContextInv(d)
    PROVE  CallbacksFindContext
<1> SUFFICES ASSUME NEW d \in Device, NEW callback \in MayRun(d)
             PROVE  Uses(callback) \subseteq context[d] \ stale[d]
  BY DEF CallbacksFindContext
<1>1. phase[d] \in Ready
  BY DEF MayRun, Ready
<1>2. CreatedSet \cap (Pipe \cup {"reader"}) = {}
  BY DEF CreatedSet, Created, Pipe
<1>3. CreatedSet \subseteq context[d] \ stale[d]
  BY <1>1, <1>2 DEF ContextInv, CreatedInv, StaleInv, Ready
<1>4. Pipe \cup {"reader", "usbDeviceDescriptor"} \subseteq context[d] \ stale[d]
  BY <1>1 DEF ContextInv, StaleInv, PipeInv, DescriptorInv, ReaderInv, ReaderReady,
              Ready, Selected, Described, Pipe
<1>5. {"dataLock", "interruptMsgQueue"} \subseteq CreatedSet
  <2>1. Created[4] = "interruptMsgQueue" /\ Created[5] = "dataLock"
    BY DEF Created
  <2> QED
    BY <2>1 DEF CreatedSet
<1>6. callback \in Callback
  BY DEF MayRun, Callback
<1> QED
  BY <1>3, <1>4, <1>5, <1>6 DEF Uses, Callback, Pipe

\* However preparing a device failed before and whatever is rebalanced, no callback finds
\* a handle missing or stale: for a device whose endpoints do not change.
THEOREM ContextReady == Spec => []CallbacksFindContext
<1> DEFINE Inv == TypeOK /\ \A d \in Device : ContextInv(d)
<1>1. Init => Inv
  BY TypeInit DEF Init, ContextInv, CreatedInv, StaleInv, EndpointInv, PipeInv,
                  DescriptorInv, ReaderInv, Selected, Described, Ready
<1>2. Inv /\ [Next]_vars => Inv'
  <2> SUFFICES ASSUME Inv, [Next]_vars PROVE Inv'
    OBVIOUS
  <2>1. TypeOK'
    BY TypeStep
  <2>2. ASSUME NEW d \in Device, Live(d), NEW e \in Device PROVE ContextInv(e)'
    BY <2>2, OthersContext, ContextStep
  <2>3. CASE UNCHANGED vars
    BY <2>1, <2>3 DEF vars, ContextInv, CreatedInv, StaleInv, EndpointInv, PipeInv,
                      DescriptorInv, ReaderInv, ReaderReady
  <2> QED
    BY <2>1, <2>2, <2>3 DEF Next
<1>3. Inv => CallbacksFindContext
  BY ContextSuffices
<1> QED
  BY <1>1, <1>2, <1>3, PTL DEF Spec

-----------------------------------------------------------------------------
\* Every action keeps the numbers given out below the count, while no two starts have raced.
LEMMA CountStep ==
    ASSUME TypeOK, CountInv, [Next]_vars
    PROVE  CountInv'
<1>0. TypeOK /\ CountInv
  OBVIOUS
<1>1. ASSUME NEW d \in Device, ReadCount(d) PROVE CountInv'
  BY <1>0, <1>1 DEF ReadCount, Goes, TypeOK, CountInv
<1>2. ASSUME NEW d \in Device, NEW created \in BOOLEAN, CreateRawPdo(d, created)
      PROVE  CountInv'
  <2> SUFFICES ASSUME ~raced' PROVE CountInv'
    BY DEF CountInv
  <2>1. ~raced /\ phase[d] = "pdo" /\ instance[d] = deviceCount /\ deviceCount \in Nat
    BY <1>0, <1>2 DEF CreateRawPdo, Goes, CountInv, TypeOK
  <2>2. deviceCount' = deviceCount + 1 /\ instance' = instance
    BY <1>2, <2>1 DEF CreateRawPdo
  <2>3. ASSUME NEW e \in Device, NEW i \in pdos'[e] PROVE i < deviceCount'
    <3>1. i \in pdos[e] \/ i = deviceCount
      BY <1>0, <1>2, <2>1, <2>3 DEF CreateRawPdo, TypeOK
    <3>2. i \in Nat
      BY <1>0, <2>1, <3>1 DEF TypeOK
    <3> QED
      BY <1>0, <2>1, <2>2, <3>1, <3>2 DEF CountInv
  <2>4. ASSUME NEW e \in Device PROVE phase'[e] # "pdo"
    BY <1>0, <1>2, <2>1 DEF CreateRawPdo, Goes, CountInv, TypeOK
  <2> QED
    BY <2>3, <2>4 DEF CountInv
<1>3. ASSUME NEW d \in Device, Remove(d) PROVE CountInv'
  BY <1>0, <1>3 DEF Remove, CountInv, TypeOK
<1>4. ASSUME UNCHANGED <<deviceCount, instance, pdos, raced>>,
             \A d \in Device : phase'[d] = "pdo" => phase[d] = "pdo"
      PROVE  CountInv'
  BY <1>0, <1>4 DEF CountInv
<1>5. ASSUME NEW d \in Device, Live(d), ~ReadCount(d), ~Remove(d),
             \A created \in BOOLEAN : ~CreateRawPdo(d, created)
      PROVE  CountInv'
  <2>1. /\ UNCHANGED <<deviceCount, instance, pdos, raced>>
        /\ \A e \in Device : phase'[e] = "pdo" => phase[e] = "pdo"
    BY <1>0, <1>5 DEF TypeOK, Live, Prepare, CreateDevice, PrepareHardware, Fails,
         CreateUsbDevice, SelectInterfaces, CreateDescriptor, SetProtocol, WriteInit,
         ConfigureReader, D0Entry, D0Exit, Goes
  <2> QED
    BY <1>4, <2>1
<1>6. ASSUME UNCHANGED vars PROVE CountInv'
  BY <1>4, <1>6 DEF vars
<1> QED
  BY <1>1, <1>2, <1>3, <1>5, <1>6 DEF Next

\* Unless two devices' starts have raced for the count, no raw PDO gets the number of
\* another that is there, rebalances and removals included.
THEOREM NumbersDistinct == Spec => []PdosDistinct
<1> DEFINE Inv == TypeOK /\ CountInv
<1>1. Init => Inv
  BY TypeInit DEF Init, CountInv
<1>2. Inv /\ [Next]_vars => Inv'
  BY TypeStep, CountStep
<1>3. Inv => PdosDistinct
  BY DEF TypeOK, CountInv, PdosDistinct
<1> QED
  BY <1>1, <1>2, <1>3, PTL DEF Spec
=============================================================================
