------------------------------ MODULE ToolSets ------------------------------
(***************************************************************************)
(* ToolSet (core/tool.py) and the list of tools of FunctionToolManager     *)
(* (tools/func_tool_manager.py): the same tools seen as a set of names and *)
(* as a list in which a name may occur more than once.  A tool is its      *)
(* name, whether it is active, and where it comes from.                    *)
(***************************************************************************)
EXTENDS Naturals, Sequences, FiniteSetsExt, Lists

Tool(name, active, from) == [name |-> name, active |-> active, from |-> from]

Named(tools, name) == {i \in DOMAIN tools : tools[i].name = name}
Names(tools) == {tools[i].name : i \in DOMAIN tools}

-----------------------------------------------------------------------------
(* ToolSet.                                                                *)

\* Mutant: the tool that came first stays.
AddToolFirst(tools, tool) == IF tool.name \in Names(tools) THEN tools ELSE Append(tools, tool)

\* The first tool of the name gives way, unless it is active and the new one
\* is not.
AddTool(tools, tool) ==
  LET i == Min(Named(tools, tool.name)) IN
  IF tool.name \notin Names(tools) THEN Append(tools, tool)
  ELSE IF tool.active \/ ~tools[i].active THEN [tools EXCEPT ![i] = tool]
  ELSE tools

\* A loop of add_tool over a list.
AddTools(tools, list) ==
  LET Set[n \in 0..Len(list)] == IF n = 0 THEN tools ELSE AddTool(Set[n - 1], list[n])
  IN Set[Len(list)]

RemoveTool(tools, name) == Kept(tools, DOMAIN tools \ Named(tools, name))

\* The tool of a name, as a set with at most one element.
GetTool(tools, name) ==
  IF name \in Names(tools) THEN {tools[Min(Named(tools, name))]} ELSE {}

\* The light set and the set of parameters: the active tools, without the
\* parameters or without the descriptions.
ActiveTools(tools) == Kept(tools, {i \in DOMAIN tools : tools[i].active})

-----------------------------------------------------------------------------
(* FunctionToolManager.func_list.                                          *)

\* remove_func: the first tool of the name goes, others stay.
RemoveFunc(list, name) ==
  IF name \in Names(list) THEN Kept(list, DOMAIN list \ {Min(Named(list, name))}) ELSE list

AddFunc(list, func) == Append(RemoveFunc(list, func.name), func)

\* get_func: the last active tool of the name, or else the last one.
GetFunc(list, name) ==
  LET active == {i \in Named(list, name) : list[i].active} IN
  IF name \notin Names(list) THEN {}
  ELSE {list[Max(IF active # {} THEN active ELSE Named(list, name))]}

GetFullToolSet(list) == AddTools(<<>>, list)
=============================================================================
