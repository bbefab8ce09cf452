------------------------------ MODULE VmAddresses ------------------------------
(***************************************************************************)
(* The addresses of virtual machine number id, a network of four addresses *)
(* each: .1 is the tap on the host and .2 the guest                        *)
(* (servers/firecracker/frontend/src/network.rs).  The guest's server      *)
(* derives its id and the host's address back from its own address when it *)
(* registers (servers/baremetal/src/main.rs, register_ready).              *)
(*                                                                         *)
(* An address 169.254.x.y is the pair <<x, y>>.                            *)
(***************************************************************************)
EXTENDS Integers

(* The number of /30 networks in 169.254.0.0/16. *)
MaxVms == 16384

(* Mutant of HostPart: the high byte is the id's, as in get_tap_mac. *)
HighByteOfId(n) == <<((n \div 4) \div 256) % 256, n % 256>>
HostPart(n) == <<(n \div 256) % 256, n % 256>>

get_vm_ip(id) == HostPart(id * 4 + 2)
get_tap_ip(id) == HostPart(id * 4 + 1)

(* The last two bytes of the tap's MAC address. *)
get_tap_mac(id) == <<(id \div 256) % 256, id % 256>>

(* register_ready: what a guest makes of its address; bytes are u8 values,  *)
(* so the subtraction is only defined for a last byte of 1 or more.         *)
RegisteredId(ip) == (ip[1] * 256 + ip[2] - 2) \div 4

RegisterHost(ip) == <<ip[1], ip[2] - 1>>
===============================================================================
