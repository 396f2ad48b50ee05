------------------------------- MODULE Surface -------------------------------
(* wgpu's Surface (src/wgpu/src/api/surface.rs) shared by several threads. *)
(* The wrapper keeps the last configuration in `config` (a Mutex<Option<  *)
(* SurfaceConfiguration>>) beside the backend surface (`inner`):           *)
(*   configure            = inner.configure(config); then lock and store;  *)
(*   get_current_texture  = inner.get_current_texture(); then lock, expect *)
(*                          the stored config and build the texture's     *)
(*                          descriptor from it.                           *)
(* Each call is two steps: the Mutex is taken only for the second, so      *)
(* another thread's step can fall between them.  The backend's surface is  *)
(* not in this repository; it is modelled from the documentation: it       *)
(* panics when reconfigured while a SurfaceTexture is alive, and fails     *)
(* fatally when asked for a texture while unconfigured or while one is    *)
(* still acquired.                                                         *)
EXTENDS Naturals, FiniteSets

CONSTANTS
  Threads,   \* threads sharing the Surface
  Configs,   \* SurfaceConfigurations (model values)
  NoConfig   \* None, for Option<SurfaceConfiguration>

VARIABLES
  config,    \* Surface::config, the wrapper's stored configuration
  backend,   \* the configuration the backend swapchain was last built with
  pc,        \* where each thread is: idle, between the steps of a call, holding a texture, or panicked
  pending,   \* the configuration a thread's configure call is storing
  tex,       \* the backend texture a thread holds: the configuration it was acquired under
  desc       \* the configuration of the SurfaceTexture descriptor a thread holds

vars == <<config, backend, pc, pending, tex, desc>>

Option == Configs \cup {NoConfig}

(* SurfaceStatus values the backend returns with a texture, and without. *)
TextureStatuses == {"Good", "Suboptimal"}
ErrorStatuses == {"Timeout", "Outdated", "Lost", "Unknown"}

(* Some thread holds the backend's acquired texture. *)
TextureAlive == \E u \in Threads : tex[u] # NoConfig

Init ==
  /\ config = NoConfig
  /\ backend = NoConfig
  /\ pc = [t \in Threads |-> "idle"]
  /\ pending = [t \in Threads |-> NoConfig]
  /\ tex = [t \in Threads |-> NoConfig]
  /\ desc = [t \in Threads |-> NoConfig]

(* configure, first step: self.inner.configure(..).  The backend recreates *)
(* the swapchain, or panics if a SurfaceTexture is still alive.            *)
ConfigureInner(t, c) ==
  /\ pc[t] = "idle"
  /\ IF TextureAlive
     THEN /\ pc' = [pc EXCEPT ![t] = "panicked"]
          /\ UNCHANGED <<backend, pending>>
     ELSE /\ backend' = c
          /\ pc' = [pc EXCEPT ![t] = "storing"]
          /\ pending' = [pending EXCEPT ![t] = c]
  /\ UNCHANGED <<config, tex, desc>>

(* configure, second step: *self.config.lock() = Some(config.clone()). *)
ConfigureStore(t) ==
  /\ pc[t] = "storing"
  /\ config' = pending[t]
  /\ pc' = [pc EXCEPT ![t] = "idle"]
  /\ pending' = [pending EXCEPT ![t] = NoConfig]
  /\ UNCHANGED <<backend, tex, desc>>

(* Mutant: a texture is handed out while another is still acquired. *)
GetCurrentTextureInnerUnchecked(t) ==
  /\ pc[t] = "idle"
  /\ IF backend = NoConfig
     THEN /\ pc' = [pc EXCEPT ![t] = "panicked"]
          /\ UNCHANGED tex
     ELSE /\ pc' = [pc EXCEPT ![t] = "locking"]
          /\ tex' = [tex EXCEPT ![t] = backend]
  /\ UNCHANGED <<config, backend, pending, desc>>

(* get_current_texture, first step: self.inner.get_current_texture().  An *)
(* error status returns at once; Good and Suboptimal go on to the lock,   *)
(* with a texture or (which the code maps to Lost) without one.           *)
GetCurrentTextureInner(t) ==
  /\ pc[t] = "idle"
  /\ IF backend = NoConfig \/ TextureAlive
     THEN /\ pc' = [pc EXCEPT ![t] = "panicked"]
          /\ UNCHANGED tex
     ELSE \E status \in TextureStatuses \cup ErrorStatuses, some \in BOOLEAN :
            IF status \in ErrorStatuses
            THEN UNCHANGED <<pc, tex>>
            ELSE /\ pc' = [pc EXCEPT ![t] = "locking"]
                 /\ tex' = [tex EXCEPT ![t] = IF some THEN backend ELSE NoConfig]
  /\ UNCHANGED <<config, backend, pending, desc>>

(* Mutant: the texture unwrapped with expect instead of ok_or(Lost). *)
GetCurrentTextureLockUnwrap(t) ==
  /\ pc[t] = "locking"
  /\ CASE config = NoConfig \/ tex[t] = NoConfig ->
            /\ pc' = [pc EXCEPT ![t] = "panicked"]
            /\ tex' = [tex EXCEPT ![t] = NoConfig]
            /\ UNCHANGED desc
       [] OTHER ->
            /\ pc' = [pc EXCEPT ![t] = "holding"]
            /\ desc' = [desc EXCEPT ![t] = config]
            /\ UNCHANGED tex
  /\ UNCHANGED <<config, backend, pending>>

(* get_current_texture, second step: lock config, expect("This surface   *)
(* has not been configured yet."), build the TextureDescriptor from the    *)
(* stored configuration, and wrap the texture (or return Lost).  A panic   *)
(* drops the acquired texture while unwinding.                            *)
GetCurrentTextureLock(t) ==
  /\ pc[t] = "locking"
  /\ CASE config = NoConfig ->
            /\ pc' = [pc EXCEPT ![t] = "panicked"]
            /\ tex' = [tex EXCEPT ![t] = NoConfig]
            /\ UNCHANGED desc
       [] tex[t] = NoConfig ->
            /\ pc' = [pc EXCEPT ![t] = "idle"]
            /\ UNCHANGED <<tex, desc>>
       [] OTHER ->
            /\ pc' = [pc EXCEPT ![t] = "holding"]
            /\ desc' = [desc EXCEPT ![t] = config]
            /\ UNCHANGED tex
  /\ UNCHANGED <<config, backend, pending>>

(* SurfaceTexture::present or its drop hands the texture back. *)
ReleaseTexture(t) ==
  /\ pc[t] = "holding"
  /\ pc' = [pc EXCEPT ![t] = "idle"]
  /\ tex' = [tex EXCEPT ![t] = NoConfig]
  /\ desc' = [desc EXCEPT ![t] = NoConfig]
  /\ UNCHANGED <<config, backend, pending>>

Next ==
  \E t \in Threads :
    \/ \E c \in Configs : ConfigureInner(t, c)
    \/ ConfigureStore(t)
    \/ GetCurrentTextureInner(t)
    \/ GetCurrentTextureLock(t)
    \/ ReleaseTexture(t)

Spec == Init /\ [][Next]_vars

------------------------------------------------------------------------------
(* Properties. *)

TypeOK ==
  /\ config \in Option
  /\ backend \in Option
  /\ pc \in [Threads -> {"idle", "storing", "locking", "holding", "panicked"}]
  /\ pending \in [Threads -> Option]
  /\ tex \in [Threads -> Option]
  /\ desc \in [Threads -> Option]
  /\ Cardinality({t \in Threads : tex[t] # NoConfig}) <= 1

(* A SurfaceTexture's descriptor (its width, height, format and usage,    *)
(* taken from Surface::config) describes the texture the backend handed   *)
(* out: the configuration the swapchain had when get_current_texture      *)
(* acquired it.                                                            *)
DescriptorMatchesTexture ==
  \A t \in Threads : pc[t] = "holding" => desc[t] = tex[t]

(* get_current_texture's expect("This surface has not been configured   *)
(* yet.") fires only while another thread's configure has rebuilt the     *)
(* backend swapchain and not yet stored the configuration: the backend    *)
(* hands out a texture only once configured, and the wrapper's lock step  *)
(* panics for no other reason, so a program whose configure returned      *)
(* before get_current_texture began never reaches it.                     *)
ExpectFiresOnlyMidConfigure ==
  [][\A t \in Threads :
       pc[t] = "locking" /\ pc'[t] = "panicked" => \E u \in Threads : pc[u] = "storing"]_vars

====
