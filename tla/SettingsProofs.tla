---------------------------- MODULE SettingsProofs ---------------------------
(* What Settings' run checks for two clients and two knobs, proved for any   *)
(* number of clients, knobs and deadzones.                                   *)
EXTENDS Settings, TLAPS

\* The settings S are what some user chose for all knobs.
Uniform(S) ==
    \A j, k \in Knob : /\ S[j].mode = S[k].mode
                       /\ S[k].mode = "linear" => S[j].deadzone = S[k].deadzone

Follows(k) ==
    settings[k].mode # "other" =>
        function[k] = IF settings[k].mode = "none" THEN "null" ELSE "linear"

\* An update that began alone stays alone unless another begins, which then overlaps.
OneUpdater == ~overlapped => \A c, e \in Client : InUpdate(c) /\ InUpdate(e) => c = e

\* How far the update of client c has come.
Writes(c) == InUpdate(c) => Uniform(pData[c])
Stored(c) == pc[c] = "store" => \A k \in Knob \ todo[c] : settings[k] = pData[c][k]
Linked(c) == pc[c] = "link" => /\ \A k \in Knob : settings[k] = pData[c][k]
                               /\ \A k \in Knob \ todo[c] : Follows(k)

UpdateInv ==
    /\ OneUpdater
    /\ \A c \in Client : Writes(c)
    /\ ~overlapped => \A c \in Client : Stored(c) /\ Linked(c)
    /\ HandlersFollowModes
    /\ KnobsAgree

-----------------------------------------------------------------------------
\* Initially every variable has its type.
LEMMA TypeInit ==
    ASSUME Init
    PROVE  TypeOK
<1>1. Default \in [Knob -> Setting]
  BY DEF Default, Setting, Mode
<1>2. settings \in [Knob -> Setting] /\ pData \in [Client -> [Knob -> Setting]]
  BY <1>1 DEF Init
<1>3. function \in [Knob -> {"null", "linear"}]
  BY DEF Init
<1>4. pc \in [Client -> {"idle", "get", "edit", "store", "link"}]
  BY DEF Init
<1>5. todo \in [Client -> SUBSET Knob] /\ \A c \in Client : todo[c] = {}
  BY DEF Init
<1>6. overlapped \in BOOLEAN
  BY DEF Init
<1> QED
  BY <1>2, <1>3, <1>4, <1>5, <1>6 DEF TypeOK

\* Every action preserves the types.
LEMMA TypeStep ==
    ASSUME TypeOK, [Next]_vars
    PROVE  TypeOK'
<1>0. TypeOK
  OBVIOUS
<1>1. ASSUME NEW c \in Client, GetDeadzone(c) PROVE TypeOK'
  BY <1>0, <1>1 DEF TypeOK, GetDeadzone, Start
<1>2. ASSUME NEW c \in Client, NEW k \in Knob, GetField(c, k) PROVE TypeOK'
  BY <1>0, <1>2 DEF TypeOK, GetField, Done
<1>3. ASSUME NEW c \in Client, NEW mode \in Mode, NEW deadzone \in Entered,
             SetDeadzone(c, mode, deadzone)
      PROVE  TypeOK'
  <2> DEFINE chosen == [k \in Knob |-> [mode |-> mode,
                           deadzone |-> IF mode = "linear" THEN deadzone
                                        ELSE pData[c][k].deadzone]]
  <2>1. chosen \in [Knob -> Setting]
    BY <1>0 DEF TypeOK, Setting
  <2>2. pData' = [pData EXCEPT ![c] = chosen]
    BY <1>3 DEF SetDeadzone
  <2>3. pData' \in [Client -> [Knob -> Setting]]
    BY <1>0, <2>1, <2>2 DEF TypeOK
  <2>4. overlapped' \in BOOLEAN
    BY <1>3 DEF SetDeadzone
  <2>5. /\ pc' = [pc EXCEPT ![c] = "store"] /\ todo' = [todo EXCEPT ![c] = Knob]
        /\ UNCHANGED <<settings, function>>
    BY <1>3 DEF SetDeadzone, Start
  <2> QED
    BY <1>0, <2>3, <2>4, <2>5 DEF TypeOK
<1>4. ASSUME NEW c \in Client, NEW k \in Knob, StoreField(c, k) PROVE TypeOK'
  BY <1>0, <1>4 DEF TypeOK, StoreField, Done
<1>5. ASSUME NEW c \in Client, NEW k \in Knob, LinkHandler(c, k) PROVE TypeOK'
  <2>1. Default \in [Knob -> Setting]
    BY DEF Default, Setting, Mode
  <2>2. pData' \in [Client -> [Knob -> Setting]]
    BY <1>0, <1>5, <2>1 DEF TypeOK, LinkHandler
  <2>3. function' \in [Knob -> {"null", "linear"}]
    BY <1>0, <1>5 DEF TypeOK, LinkHandler
  <2>4. /\ pc' \in [Client -> {"idle", "get", "edit", "store", "link"}]
        /\ todo' \in [Client -> SUBSET Knob]
        /\ \A e \in Client : pc'[e] \in {"idle", "edit"} => todo'[e] = {}
        /\ UNCHANGED <<settings, overlapped>>
    BY <1>0, <1>5 DEF TypeOK, LinkHandler, Done
  <2> QED
    BY <1>0, <2>2, <2>3, <2>4 DEF TypeOK
<1>6. ASSUME UNCHANGED vars PROVE TypeOK'
  BY <1>0, <1>6 DEF TypeOK, vars, clientVars
<1> QED
  BY <1>1, <1>2, <1>3, <1>4, <1>5, <1>6 DEF Next, Edit

\* Every variable keeps its type, also in overlapping updates.
THEOREM SettingsTypes == Spec => []TypeOK
<1>1. Init => TypeOK
  BY TypeInit
<1>2. TypeOK /\ [Next]_vars => TypeOK'
  BY TypeStep
<1> QED
  BY <1>1, <1>2, PTL DEF Spec

-----------------------------------------------------------------------------
\* The invariant holds initially.
LEMMA UpdateInit ==
    ASSUME Init
    PROVE  UpdateInv
BY DEF Init, UpdateInv, OneUpdater, InUpdate, Writes, Stored, Linked, Follows,
       HandlersFollowModes, KnobsAgree, Default

\* A step outside an update touches nothing that the invariant is about.
LEMMA ReadStep ==
    ASSUME TypeOK, UpdateInv, NEW c \in Client, ~InUpdate(c), ~InUpdate(c)',
           UNCHANGED <<settings, function, overlapped>>,
           \A e \in Client \ {c} :
               pc'[e] = pc[e] /\ pData'[e] = pData[e] /\ todo'[e] = todo[e]
    PROVE  UpdateInv'
<1>1. \A e \in Client : InUpdate(e)' = InUpdate(e)
  BY DEF InUpdate
<1>2. Settled' = Settled
  BY <1>1 DEF Settled
<1>3. OneUpdater'
  BY <1>1 DEF UpdateInv, OneUpdater
<1>4. \A e \in Client : Writes(e)'
  BY <1>1 DEF UpdateInv, Writes, Uniform, InUpdate
<1>5. ~overlapped' => \A e \in Client : Stored(e)' /\ Linked(e)'
  BY <1>1 DEF UpdateInv, Stored, Linked, Follows, InUpdate
<1>6. HandlersFollowModes' /\ KnobsAgree'
  BY <1>2 DEF UpdateInv, HandlersFollowModes, KnobsAgree
<1> QED
  BY <1>3, <1>4, <1>5, <1>6 DEF UpdateInv

\* The beginning of an update preserves the invariant: the buffer is uniform.
LEMMA BeginStep ==
    ASSUME TypeOK, UpdateInv, NEW c \in Client, NEW mode \in Mode,
           NEW deadzone \in Entered, SetDeadzone(c, mode, deadzone)
    PROVE  UpdateInv'
<1>1. /\ pc[c] = "edit" /\ pc' = [pc EXCEPT ![c] = "store"]
      /\ todo' = [todo EXCEPT ![c] = Knob]
      /\ UNCHANGED <<settings, function>>
      /\ overlapped' = \E other \in Client \ {c} : InUpdate(other)
  BY DEF SetDeadzone, Start
<1>2. \A e \in Client \ {c} : pData'[e] = pData[e]
  BY DEF SetDeadzone, TypeOK
<1>3. pData'[c] = [k \in Knob |-> [mode |-> mode,
                           deadzone |-> IF mode = "linear" THEN deadzone
                                        ELSE pData[c][k].deadzone]]
  BY DEF SetDeadzone, TypeOK
<1>4. \A e \in Client \ {c} : InUpdate(e)' = InUpdate(e)
  BY <1>1 DEF InUpdate, TypeOK
<1>5. InUpdate(c)'
  BY <1>1 DEF InUpdate, TypeOK
<1>6. OneUpdater'
  BY <1>1, <1>4 DEF OneUpdater
<1>7. Uniform(pData'[c])
  BY <1>3 DEF Uniform
<1>8. \A e \in Client : Writes(e)'
  BY <1>2, <1>4, <1>7 DEF UpdateInv, Writes, Uniform
<1>9. ~overlapped' => \A e \in Client : Stored(e)' /\ Linked(e)'
  <2> SUFFICES ASSUME ~overlapped', NEW e \in Client PROVE Stored(e)' /\ Linked(e)'
    OBVIOUS
  <2>1. CASE e = c
    BY <1>1, <2>1 DEF Stored, Linked, TypeOK
  <2>2. CASE e # c
    BY <1>1, <1>4, <2>2 DEF Stored, Linked, InUpdate
  <2> QED
    BY <2>1, <2>2
<1>10. ~Settled'
  BY <1>5 DEF Settled
<1> QED
  BY <1>6, <1>8, <1>9, <1>10 DEF UpdateInv, HandlersFollowModes, KnobsAgree

\* While one client updates alone no other is in an update.
LEMMA Alone ==
    ASSUME UpdateInv, ~overlapped, NEW c \in Client, InUpdate(c)
    PROVE  \A e \in Client \ {c} : ~InUpdate(e)
BY DEF UpdateInv, OneUpdater

\* Storing a knob preserves the invariant.
LEMMA StoreStep ==
    ASSUME TypeOK, UpdateInv, NEW c \in Client, NEW k \in Knob, StoreField(c, k)
    PROVE  UpdateInv'
<1>1. /\ pc[c] = "store" /\ k \in todo[c]
      /\ settings' = [settings EXCEPT ![k] = pData[c][k]]
      /\ UNCHANGED <<function, pData, overlapped>>
      /\ pc'[c] = (IF todo[c] = {k} THEN "link" ELSE "store")
      /\ todo'[c] = (IF todo[c] = {k} THEN Knob ELSE todo[c] \ {k})
      /\ \A e \in Client \ {c} : pc'[e] = pc[e]
  BY DEF StoreField, Done, TypeOK
<1>2. \A e \in Client : InUpdate(e)' = InUpdate(e)
  BY <1>1 DEF InUpdate
<1>3. InUpdate(c)
  BY <1>1 DEF InUpdate
<1>4. OneUpdater' /\ \A e \in Client : Writes(e)'
  BY <1>1, <1>2 DEF UpdateInv, OneUpdater, Writes, Uniform
<1>5. ASSUME ~overlapped', NEW e \in Client PROVE Stored(e)' /\ Linked(e)'
  <2>1. CASE e # c
    BY <1>1, <1>2, <1>3, <1>5, <2>1, Alone DEF InUpdate, Stored, Linked
  <2>2. ASSUME NEW j \in Knob \ (todo[c] \ {k}) PROVE settings'[j] = pData'[c][j]
    BY <1>1, <1>5, <2>2 DEF UpdateInv, Stored, TypeOK
  <2>3. CASE e = c /\ todo[c] = {k}
    BY <1>1, <2>2, <2>3 DEF Stored, Linked
  <2>4. CASE e = c /\ todo[c] # {k}
    BY <1>1, <2>2, <2>4 DEF Stored, Linked
  <2> QED
    BY <2>1, <2>3, <2>4
<1>6. ~Settled'
  BY <1>2, <1>3 DEF Settled
<1> QED
  BY <1>4, <1>5, <1>6 DEF UpdateInv, HandlersFollowModes, KnobsAgree

\* Choosing a knob's handler preserves the invariant; the last one settles the settings.
LEMMA LinkStep ==
    ASSUME TypeOK, UpdateInv, NEW c \in Client, NEW k \in Knob, LinkHandler(c, k)
    PROVE  UpdateInv'
<1>1. /\ pc[c] = "link" /\ k \in todo[c]
      /\ UNCHANGED <<settings, overlapped>>
      /\ pc'[c] = (IF todo[c] = {k} THEN "idle" ELSE "link")
      /\ todo'[c] = todo[c] \ {k}
      /\ \A e \in Client \ {c} : pc'[e] = pc[e]
  BY DEF LinkHandler, Done, TypeOK
<1>2. \A j \in Knob \ {k} : function'[j] = function[j]
  BY DEF LinkHandler, TypeOK
<1>3. settings[k].mode # "other" =>
          function'[k] = IF settings[k].mode = "none" THEN "null" ELSE "linear"
  BY DEF LinkHandler, TypeOK, Setting, Mode
<1>4. /\ \A e \in Client \ {c} : pData'[e] = pData[e]
      /\ todo[c] # {k} => pData' = pData
  BY DEF LinkHandler, TypeOK
<1>5. /\ \A e \in Client : InUpdate(e)' => InUpdate(e)
      /\ \A e \in Client \ {c} : InUpdate(e)' = InUpdate(e)
      /\ InUpdate(c) /\ InUpdate(c)' = (todo[c] # {k})
  BY <1>1 DEF InUpdate
<1>6. OneUpdater'
  BY <1>1, <1>5 DEF UpdateInv, OneUpdater
<1>7. ASSUME NEW e \in Client PROVE Writes(e)'
  <2>1. InUpdate(e)' => pData'[e] = pData[e]
    BY <1>4, <1>5
  <2> QED
    BY <1>5, <2>1 DEF UpdateInv, Writes, Uniform
<1>8. ASSUME ~overlapped
      PROVE  /\ \A j \in Knob : settings[j] = pData[c][j]
             /\ \A j \in Knob \ (todo[c] \ {k}) : Follows(j)'
  BY <1>1, <1>2, <1>3, <1>8 DEF UpdateInv, Linked, Follows
<1>9. ASSUME ~overlapped', NEW e \in Client PROVE Stored(e)' /\ Linked(e)'
  <2>1. CASE e # c
    BY <1>1, <1>5, <1>9, <2>1, Alone DEF InUpdate, Stored, Linked
  <2>2. CASE e = c
    BY <1>1, <1>4, <1>8, <1>9, <2>2 DEF Stored, Linked
  <2> QED
    BY <2>1, <2>2
<1>10. ASSUME Settled' PROVE HandlersFollowModes' /\ KnobsAgree'
  <2>1. ~overlapped /\ todo[c] = {k}
    BY <1>1, <1>5, <1>10 DEF Settled
  <2>2. \A j \in Knob : Follows(j)'
    BY <1>8, <2>1
  <2>3. Uniform(settings)
    BY <1>5, <1>8, <2>1 DEF UpdateInv, Writes, Uniform
  <2> QED
    BY <1>1, <2>2, <2>3 DEF Follows, Uniform, HandlersFollowModes, KnobsAgree
<1> QED
  BY <1>6, <1>7, <1>9, <1>10 DEF UpdateInv, HandlersFollowModes, KnobsAgree

\* Every action preserves the invariant.
LEMMA UpdateStep ==
    ASSUME TypeOK, UpdateInv, [Next]_vars
    PROVE  UpdateInv'
<1>1. ASSUME NEW c \in Client, GetDeadzone(c) PROVE UpdateInv'
  <2>1. ~InUpdate(c) /\ ~InUpdate(c)'
    BY <1>1 DEF GetDeadzone, Start, InUpdate, TypeOK
  <2> QED
    BY <1>1, <2>1, ReadStep DEF GetDeadzone, Start, TypeOK
<1>2. ASSUME NEW c \in Client, NEW k \in Knob, GetField(c, k) PROVE UpdateInv'
  <2>1. ~InUpdate(c) /\ ~InUpdate(c)'
    BY <1>2 DEF GetField, Done, InUpdate, TypeOK
  <2> QED
    BY <1>2, <2>1, ReadStep DEF GetField, Done, TypeOK
<1>3. CASE UNCHANGED vars
  BY <1>3 DEF vars, clientVars, UpdateInv, OneUpdater, Writes, Stored, Linked, Follows,
              Uniform, InUpdate, Settled, HandlersFollowModes, KnobsAgree
<1> QED
  BY <1>1, <1>2, <1>3, BeginStep, StoreStep, LinkStep DEF Next, Edit

\* When an update that had the settings for itself is done, each knob is processed as its
\* mode says, and all knobs are set as one user chose, whatever updates overlapped before.
THEOREM SettledSettings == Spec => [](HandlersFollowModes /\ KnobsAgree)
<1>1. Init => TypeOK /\ UpdateInv
  BY TypeInit, UpdateInit
<1>2. TypeOK /\ UpdateInv /\ [Next]_vars => (TypeOK /\ UpdateInv)'
  BY TypeStep, UpdateStep
<1>3. UpdateInv => HandlersFollowModes /\ KnobsAgree
  BY DEF UpdateInv
<1> QED
  BY <1>1, <1>2, <1>3, PTL DEF Spec
=============================================================================
